---- MODULE Spec2Model ----
(***************************************************************************)
(* Canopy-height pipeline of the tree-classification repository:           *)
(*   elevation/harmonize_elevation.py  NoData harmonisation, DGM alignment *)
(*   chm/create_chm.py                 CHM = DOM - DGM, quality filters    *)
(*   chm/harmonize_chm.py              second filter pass, -9999 marker    *)
(*   chm/resample_chm.py               10 m mean / max / std               *)
(*   validation/validate_data.py       check 0.3: 10 m mean / max / std    *)
(*                                                                         *)
(* Rasters are one row of pixels on an integer lattice: a file is a record *)
(* [exists, data, nodata, origin]; pixel k of a file lies at world         *)
(* position origin + k - 1, its shape is Len(data).  Heights are whole     *)
(* metres.  float32 results are whole numbers too: Fl rounds to nearest,   *)
(* ties to even.                                                           *)
(***************************************************************************)
EXTENDS Integers, Sequences, FiniteSets, TLC

VARIABLES
    city,        \* the city being processed
    boundary,    \* the buffered boundary polygon: world interval [lo, hi)
    raw,         \* dom_1m.tif / dgm_1m.tif as downloaded (kept for reference)
    elev,        \* dom_1m.tif / dgm_1m.tif as they are on disk now
    harmonized,  \* dom_harmonized.tif / dgm_harmonized.tif of the last harmonize_city
    align,       \* what the last alignment step did
    loaded,      \* the arrays load_and_clip_elevation returned last
    chm_raw,     \* compute_chm's result in the last create_chm run
    base,        \* CHM_1m_<city>.tif
    s2,          \* the grids of the Sentinel-2 rasters the resamplers read
    coarse,      \* CHM_10m_<variant>_<city>.tif, per variant
    aggregated,  \* per variant: the base raster the file on disk was computed from
    region,      \* total_bounds of the city boundary, in the tile CRS and in WGS84,
                 \* and the stretch [lo, hi) between its parts that it does not cover
    feed,        \* per data type: the tiles the download feed lists
    dl,          \* per data type: what the last download main() did
    corrupt,     \* the output files on disk that cannot be opened
    gpkg,        \* city_boundaries.gpkg: whether it exists, and the city's polygon
    chm_run,     \* what the last create_chm.process_city did
    report,      \* the valid-coverage percentages reported last
    fleet,       \* per city: which of its files exist (multi-city drivers)
    drv,         \* the last multi-city driver: the cities it got to
    pool,        \* the tile worker pool of a download script
    xyz,         \* the last xyz_to_geotiff conversion: its points and its raster
    chm_stats,   \* stats_<city>.json, what process_city returned, chm_statistics.csv
    val          \* validate_data: what its checks read per city, what the last run did

vars == <<city, boundary, raw, elev, harmonized, align, loaded, chm_raw, base,
          s2, coarse, aggregated, region, feed, dl, corrupt, gpkg, chm_run,
          report, fleet, drv, pool, xyz, chm_stats, val>>

elevVars == <<raw, elev, harmonized>>
aggVars == <<s2, coarse, aggregated>>
dlVars == <<region, feed, dl, corrupt>>
driverVars == <<fleet, drv>>
toolVars == <<pool, xyz, chm_stats, val>>
pipelineVars == <<city, boundary, elevVars, align, loaded, chm_raw, base, aggVars,
                  dlVars, gpkg, chm_run, report, driverVars>>

-----------------------------------------------------------------------------
(* Values *)

\* np.nan: compares unequal to everything, itself included
NaN == 999999
\* src.nodata is None: the file declares no missing marker
None == 888888

\* harmonize_elevation.TARGET_NODATA, harmonize_chm.NODATA, resample_chm.NODATA
TARGET_NODATA == -9999
NODATA == -9999
\* Hamburg DGM's marker
HAMBURG_DGM_NODATA == -32768

NEGATIVE_THRESHOLD == 0
MAX_HEIGHT_THRESHOLD == 60
SLIGHTLY_NEGATIVE_MIN == -2
MAX_REALISTIC_HEIGHT == 50

CITIES == {"Berlin", "Hamburg", "Rostock"}
DataTypes == {"DOM", "DGM"}

isnan(x) == x = NaN

\* a == b on floats, and np.isclose(a, b) on whole numbers
Eq(a, b) == a # NaN /\ b # NaN /\ a = b
Lt(a, b) == a # NaN /\ b # NaN /\ a < b
Gt(a, b) == a # NaN /\ b # NaN /\ a > b
Ge(a, b) == a # NaN /\ b # NaN /\ a >= b

Sub(a, b) == IF a = NaN \/ b = NaN THEN NaN ELSE a - b

NoFile == [exists |-> FALSE, data |-> <<>>, nodata |-> None, origin |-> 0]
File(d, nd, o) == [exists |-> TRUE, data |-> d, nodata |-> nd, origin |-> o]

\* whether GDAL takes v for missing, given the nodata value passed to it
IsNoData(v, nd) == IF nd = None THEN FALSE ELSE IF nd = NaN THEN v = NaN ELSE v = nd

\* whether pixel k of file f is missing under the marker the file declares
Missing(f, k) == f.data[k] = NaN \/ IsNoData(f.data[k], f.nodata)

-----------------------------------------------------------------------------
(* elevation/harmonize_elevation.py *)

harmonize_nodata_berlin(src) ==
    File([k \in 1..Len(src.data) |->
              IF src.data[k] = 0 THEN TARGET_NODATA ELSE src.data[k]],
         TARGET_NODATA, src.origin)

harmonize_nodata_hamburg(src) ==
    IF src.nodata = None
    THEN File(src.data, TARGET_NODATA, src.origin)
    ELSE IF Eq(src.nodata, HAMBURG_DGM_NODATA)
    THEN File([k \in 1..Len(src.data) |->
                   IF Eq(src.data[k], src.nodata) THEN TARGET_NODATA ELSE src.data[k]],
              TARGET_NODATA, src.origin)
    ELSE File(src.data, TARGET_NODATA, src.origin)

harmonize_nodata_rostock(src) ==
    File(src.data, TARGET_NODATA, src.origin)

nodata_func(c, src) ==
    CASE c = "Berlin" -> harmonize_nodata_berlin(src)
      [] c = "Hamburg" -> harmonize_nodata_hamburg(src)
      [] c = "Rostock" -> harmonize_nodata_rostock(src)

\* rasterio.warp.reproject between two grids of the same pixel size on the
\* same lattice: a destination pixel takes the source pixel at its position;
\* where the source has none, or a missing one, it keeps dst_nodata
Reproject(src, src_origin, src_nodata, dst_len, dst_origin, dst_nodata) ==
    [i \in 1..dst_len |->
        LET k == dst_origin + i - src_origin
        IN  IF k \in 1..Len(src) /\ ~IsNoData(src[k], src_nodata) /\ src[k] # NaN
            THEN src[k]
            ELSE dst_nodata]

align_dgm_to_dom(dom, dgm) ==
    LET dom_shape == Len(dom.data)
    IN  File(Reproject(dgm.data, dgm.origin, dgm.nodata, dom_shape, dom.origin,
                       TARGET_NODATA),
             TARGET_NODATA, dom.origin)

NoAlign == [step |-> "none", ref |-> "none", resampled |-> {},
            dom_shape |-> 0, dgm_shape |-> 0, ok |-> TRUE]

\* harmonize_elevation.harmonize_city
HarmonizeElevation ==
    /\ elev["DOM"].exists /\ elev["DGM"].exists
    /\ LET dom_tmp == nodata_func(city, elev["DOM"])
           dgm_tmp == nodata_func(city, elev["DGM"])
           dgm_aligned == align_dgm_to_dom(dom_tmp, dgm_tmp)
       IN  /\ harmonized' = [DOM |-> dom_tmp, DGM |-> dgm_tmp, src |-> elev]
           /\ elev' = [DOM |-> dom_tmp, DGM |-> dgm_aligned]
           /\ align' = [step |-> "align_dgm_to_dom", ref |-> "DOM",
                        resampled |-> {"DGM"},
                        dom_shape |-> Len(dom_tmp.data),
                        dgm_shape |-> Len(dgm_aligned.data),
                        ok |-> TRUE]
    /\ UNCHANGED <<city, boundary, dlVars, gpkg, chm_run, report, driverVars, toolVars,
                   raw, loaded, chm_raw, base, s2, coarse, aggregated>>

-----------------------------------------------------------------------------
(* chm/create_chm.py *)

Max2(a, b) == IF a >= b THEN a ELSE b
Min2(a, b) == IF a <= b THEN a ELSE b

\* rasterio.mask.mask(src, geometry, crop=True, nodata=np.nan) followed by
\* np.where(x == src.nodata, np.nan, x): the window of the raster under the
\* boundary, the declared marker turned into NaN
ClipLo(f, b) == Max2(f.origin, b.lo)
ClipHi(f, b) == Min2(f.origin + Len(f.data), b.hi)
ClipOverlaps(f, b) == ClipLo(f, b) < ClipHi(f, b)
Clip(f, b) ==
    LET lo == ClipLo(f, b)
        n == ClipHi(f, b) - lo
    IN  [data |-> [i \in 1..n |->
                     LET v == f.data[lo + i - f.origin]
                     IN  IF f.nodata # None /\ Eq(v, f.nodata) THEN NaN ELSE v],
         origin |-> lo]

\* the resampling branch of load_and_clip_elevation: DOM onto the DGM grid
ResampleDomBadShape(dom_clipped, ref_shape, ref_origin) ==
    Reproject(dom_clipped.data, dom_clipped.origin, NaN, Len(dom_clipped.data),
              ref_origin, NaN)

ResampleDom(dom_clipped, ref_shape, ref_origin) ==
    Reproject(dom_clipped.data, dom_clipped.origin, NaN, ref_shape, ref_origin, NaN)

\* load_and_clip_elevation: the DGM clip is the reference grid
load_and_clip_elevation(dom_file, dgm_file, b) ==
    LET dgm == Clip(dgm_file, b)
        ref_shape == Len(dgm.data)
        ref_origin == dgm.origin
        dom_clipped == Clip(dom_file, b)
        resample == Len(dom_clipped.data) # ref_shape \/ dom_clipped.origin # ref_origin
        dom == IF resample
               THEN ResampleDom(dom_clipped, ref_shape, ref_origin)
               ELSE dom_clipped.data
    IN  [dom |-> dom, dgm |-> dgm.data, origin |-> ref_origin,
         dom_clipped |-> dom_clipped,
         resampled |-> IF resample THEN {"DOM"} ELSE {},
         ok |-> Len(dom) = Len(dgm.data)]

compute_chm_zero_fallback(dom, dgm) ==
    [k \in 1..Len(dom) |->
        IF isnan(dom[k]) \/ isnan(dgm[k]) THEN 0 ELSE dom[k] - dgm[k]]

compute_chm(dom, dgm) ==
    LET chm == [k \in 1..Len(dom) |-> Sub(dom[k], dgm[k])]
    IN  [k \in 1..Len(dom) |->
            IF isnan(dom[k]) \/ isnan(dgm[k]) THEN NaN ELSE chm[k]]

\* a variant that sets negative heights to ground level
apply_quality_filters_zeroing(chm, neg_threshold, max_threshold) ==
    LET neg == [k \in 1..Len(chm) |->
                   IF Lt(chm[k], neg_threshold) /\ ~isnan(chm[k]) THEN 0 ELSE chm[k]]
    IN  [chm_clean |-> [k \in 1..Len(chm) |->
                           IF Gt(neg[k], max_threshold) THEN NaN ELSE neg[k]],
         negative_pixels |-> Cardinality({k \in 1..Len(chm) :
                                 Lt(chm[k], neg_threshold) /\ ~isnan(chm[k])}),
         outlier_pixels |-> Cardinality({k \in 1..Len(chm) : Gt(chm[k], max_threshold)})]

\* a variant without the outlier rule
apply_quality_filters_no_max(chm, neg_threshold, max_threshold) ==
    [chm_clean |-> [k \in 1..Len(chm) |->
                       IF Lt(chm[k], neg_threshold) /\ ~isnan(chm[k]) THEN NaN ELSE chm[k]],
     negative_pixels |-> Cardinality({k \in 1..Len(chm) :
                             Lt(chm[k], neg_threshold) /\ ~isnan(chm[k])}),
     outlier_pixels |-> 0]

\* a variant whose outlier count includes heights equal to the threshold
apply_quality_filters_inclusive_count(chm, neg_threshold, max_threshold) ==
    LET neg == [k \in 1..Len(chm) |->
                   IF Lt(chm[k], neg_threshold) /\ ~isnan(chm[k]) THEN NaN ELSE chm[k]]
    IN  [chm_clean |-> [k \in 1..Len(chm) |->
                           IF Gt(neg[k], max_threshold) THEN NaN ELSE neg[k]],
         negative_pixels |-> Cardinality({k \in 1..Len(chm) :
                                 Lt(chm[k], neg_threshold) /\ ~isnan(chm[k])}),
         outlier_pixels |-> Cardinality({k \in 1..Len(chm) : Ge(chm[k], max_threshold)})]

apply_quality_filters(chm, neg_threshold, max_threshold) ==
    LET neg == [k \in 1..Len(chm) |->
                   IF Lt(chm[k], neg_threshold) /\ ~isnan(chm[k]) THEN NaN ELSE chm[k]]
    IN  [chm_clean |-> [k \in 1..Len(chm) |->
                           IF Gt(neg[k], max_threshold) THEN NaN ELSE neg[k]],
         negative_pixels |-> Cardinality({k \in 1..Len(chm) :
                                 Lt(chm[k], neg_threshold) /\ ~isnan(chm[k])}),
         outlier_pixels |-> Cardinality({k \in 1..Len(chm) : Gt(chm[k], max_threshold)})]

\* save_chm_geotiff: float32, nodata = NaN
save_chm_geotiff(chm, origin) == File(chm, NaN, origin)

NoLoad == [dom |-> <<>>, dgm |-> <<>>, origin |-> 0,
           dom_clipped |-> [data |-> <<>>, origin |-> 0],
           resampled |-> {}, ok |-> TRUE]

\* round(x, 2) of x = num / den, in hundredths
round2(num, den) ==
    LET q == (100 * num) \div den
        r == (100 * num) % den
    IN  IF 2 * r < den THEN q
        ELSE IF 2 * r > den THEN q + 1
        ELSE IF q % 2 = 0 THEN q ELSE q + 1

\* create_geometry_mask: the pixels of a raster of n pixels at origin whose
\* centre lies inside the polygon
create_geometry_mask(n, origin, polygon) ==
    {k \in 1..n : polygon.lo <= origin + k - 1 /\ origin + k - 1 < polygon.hi}

\* mask_to_city_core: the raster with NaN outside the mask
mask_to_city_core(chm, geom_mask) ==
    [k \in 1..Len(chm) |-> IF k \in geom_mask THEN chm[k] ELSE NaN]

\* compute_statistics(chm, city, extent, reference_mask)["Valid_percent"]
compute_statistics(chm, reference_mask) ==
    LET pixels_in_geometry == Cardinality(reference_mask)
        valid_in_geometry == Cardinality({k \in reference_mask : ~isnan(chm[k])})
    IN  IF pixels_in_geometry > 0
        THEN round2(100 * valid_in_geometry, pixels_in_geometry)
        ELSE 0

\* the output of process_city's steps 1 to 4 for the files on disk: what a
\* run that does not skip loads, computes and saves
process_city_steps ==
    LET l == load_and_clip_elevation(elev["DOM"], elev["DGM"], boundary)
        raw_chm == compute_chm(l.dom, l.dgm)
        f == apply_quality_filters(raw_chm, NEGATIVE_THRESHOLD, MAX_HEIGHT_THRESHOLD)
    IN  [l |-> l, raw_chm |-> raw_chm, corrections |-> f,
         output |-> save_chm_geotiff(f.chm_clean, l.origin)]

\* whether steps 1 to 4 end without an exception
process_city_loads ==
    /\ "DOM" \notin corrupt /\ "DGM" \notin corrupt
    /\ ClipOverlaps(elev["DGM"], boundary) /\ ClipOverlaps(elev["DOM"], boundary)

\* create_chm.process_city(city, ..., skip_existing=True), called by main
\* (which needs the boundary files to exist)
CreateChm ==
    /\ gpkg.exists
    /\ elev["DOM"].exists /\ elev["DGM"].exists
    /\ IF base.exists
       THEN \* the sidecar's statistics if it exists, else empty dicts; main
            \* rewrites the CSV only when it holds a non-empty dict
            /\ chm_run' = "skipped"
            /\ chm_stats' = [chm_stats EXCEPT
                  !.returned = IF chm_stats.sidecar THEN "cached" ELSE "empty",
                  !.csv = chm_stats.sidecar \/ @]
            /\ UNCHANGED <<align, loaded, chm_raw, base, report, corrupt>>
       ELSE IF ~process_city_loads
       THEN \* rasterio.open raises, or mask() raises "Input shapes do not
            \* overlap raster"
            /\ chm_run' = "failed"
            /\ chm_stats' = [chm_stats EXCEPT !.returned = "raised"]
            /\ UNCHANGED <<align, loaded, chm_raw, base, report, corrupt>>
       ELSE LET l == load_and_clip_elevation(elev["DOM"], elev["DGM"], boundary)
                p == process_city_steps
                chm_clean == p.corrections.chm_clean
                buffer_mask == create_geometry_mask(Len(chm_clean), l.origin, boundary)
                core_mask == create_geometry_mask(Len(chm_clean), l.origin, gpkg.core)
            IN  /\ align' = [step |-> "load_and_clip_elevation", ref |-> "DGM",
                             resampled |-> l.resampled,
                             dom_shape |-> Len(l.dom), dgm_shape |-> Len(l.dgm),
                             ok |-> l.ok]
                /\ loaded' = l
                /\ IF l.ok /\ chm_stats.listed
                   THEN /\ chm_raw' = p.raw_chm
                        /\ base' = p.output
                        /\ corrupt' = corrupt \ {"CHM"}
                        /\ chm_run' = "computed"
                        /\ report' = [report EXCEPT
                              !.full = compute_statistics(chm_clean, buffer_mask),
                              !.core = compute_statistics(
                                           mask_to_city_core(chm_clean, core_mask),
                                           core_mask)]
                        /\ chm_stats' = [chm_stats EXCEPT !.sidecar = TRUE,
                                            !.returned = "computed", !.csv = TRUE]
                   ELSE IF l.ok
                   THEN \* step 4 saved the raster; create_geometry_mask raises
                        \* for a city without a row in city_boundaries.gpkg
                        /\ chm_raw' = p.raw_chm
                        /\ base' = p.output
                        /\ corrupt' = corrupt \ {"CHM"}
                        /\ chm_run' = "failed"
                        /\ chm_stats' = [chm_stats EXCEPT !.returned = "raised"]
                        /\ UNCHANGED report
                   ELSE /\ chm_run' = "failed"
                        /\ chm_stats' = [chm_stats EXCEPT !.returned = "raised"]
                        /\ UNCHANGED <<chm_raw, base, report, corrupt>>
    /\ UNCHANGED <<city, boundary, region, feed, dl, gpkg, driverVars, pool, xyz, val,
                   elevVars, aggVars>>

-----------------------------------------------------------------------------
(* chm/harmonize_chm.py *)

apply_chm_filters(chm) ==
    LET slightly_negative == {k \in 1..Len(chm) :
                                 Ge(chm[k], SLIGHTLY_NEGATIVE_MIN) /\ Lt(chm[k], 0)}
        very_negative == {k \in 1..Len(chm) : Lt(chm[k], SLIGHTLY_NEGATIVE_MIN)}
        very_high == {k \in 1..Len(chm) : Gt(chm[k], MAX_REALISTIC_HEIGHT)}
    IN  [chm_filtered |-> [k \in 1..Len(chm) |->
                              IF k \in very_high \/ k \in very_negative THEN NaN
                              ELSE IF k \in slightly_negative THEN 0
                              ELSE chm[k]],
         slightly_negative_set_to_zero |-> Cardinality(slightly_negative),
         very_negative_removed |-> Cardinality(very_negative),
         very_high_removed |-> Cardinality(very_high)]

\* with rasterio.open(path) as src: src.read(1), np.isclose(x, src.nodata) -> NaN
ReadNoDataAsNaN(f) ==
    [k \in 1..Len(f.data) |->
        IF f.nodata # None /\ Eq(f.data[k], f.nodata) THEN NaN ELSE f.data[k]]

\* np.where(np.isnan(x), NODATA, x)
NaNToNoData(d) == [k \in 1..Len(d) |-> IF isnan(d[k]) THEN NODATA ELSE d[k]]

\* harmonize_chm.harmonize_city: overwrites the base raster
HarmonizeChm ==
    /\ base.exists /\ "CHM" \notin corrupt
    /\ LET chm == ReadNoDataAsNaN(base)
           f == apply_chm_filters(chm)
       IN  base' = File(NaNToNoData(f.chm_filtered), NODATA, base.origin)
    /\ UNCHANGED <<city, boundary, dlVars, gpkg, chm_run, report, driverVars, toolVars,
                   elevVars, align, loaded, chm_raw, aggVars>>

-----------------------------------------------------------------------------
(* rasterio.warp.reproject onto a coarser grid, and float32 arithmetic *)

Variants == {"mean", "max", "std"}

RECURSIVE SumOver(_, _)
SumOver(d, ks) ==
    IF ks = {} THEN 0
    ELSE LET k == CHOOSE x \in ks : TRUE
         IN  d[k] + SumOver(d, ks \ {k})

RECURSIVE MaxOver(_, _)
MaxOver(d, ks) ==
    LET k == CHOOSE x \in ks : TRUE
    IN  IF ks = {k} THEN d[k] ELSE Max2(d[k], MaxOver(d, ks \ {k}))

\* a / n in float32: the nearest whole number, ties to even
Fl(a, n) ==
    LET q == a \div n
        r == a % n
    IN  IF 2 * r < n THEN q
        ELSE IF 2 * r > n THEN q + 1
        ELSE IF q % 2 = 0 THEN q ELSE q + 1

\* the largest r in lo..hi with r * r <= x
RECURSIVE ISqrtIn(_, _, _)
ISqrtIn(x, lo, hi) ==
    IF lo >= hi THEN lo
    ELSE LET mid == (lo + hi + 1) \div 2
         IN  IF mid * mid <= x THEN ISqrtIn(x, mid, hi) ELSE ISqrtIn(x, lo, mid - 1)

\* the whole part of sqrt(x), for x below 2^31
ISqrt(x) == ISqrtIn(x, 0, 46340)

\* np.sqrt in float32: NaN below 0, else the nearest whole number
FlSqrt(x) ==
    IF x = NaN \/ x < 0 THEN NaN
    ELSE LET r == ISqrt(x)
         IN  IF x - r * r > r THEN r + 1 ELSE r

Square(d) == [k \in 1..Len(d) |-> IF isnan(d[k]) THEN NaN ELSE d[k] * d[k]]

\* the fine pixels whose position lies in cell j of grid g
CellPixels(src_len, src_origin, g, j) ==
    {k \in 1..src_len :
        /\ src_origin + k - 1 >= g.origin + (j - 1) * g.res
        /\ src_origin + k - 1 < g.origin + j * g.res}

\* Resampling.average with src_nodata = dst_nodata = NaN
AverageKernel(src, src_origin, g) ==
    [j \in 1..g.width |->
        LET ks == {k \in CellPixels(Len(src), src_origin, g, j) : ~isnan(src[k])}
        IN  IF ks = {} THEN NaN ELSE Fl(SumOver(src, ks), Cardinality(ks))]

\* Resampling.max with src_nodata = dst_nodata = NaN
MaxKernel(src, src_origin, g) ==
    [j \in 1..g.width |->
        LET ks == {k \in CellPixels(Len(src), src_origin, g, j) : ~isnan(src[k])}
        IN  IF ks = {} THEN NaN ELSE MaxOver(src, ks)]

NoCoarse == [exists |-> FALSE, data |-> <<>>, nodata |-> None,
             grid |-> [origin |-> 0, width |-> 0, res |-> 0], by |-> "none"]
CoarseFile(d, nd, g, who) ==
    [exists |-> TRUE, data |-> d, nodata |-> nd, grid |-> g, by |-> who]
NoInput == [base |-> NoFile, src_data |-> <<>>]

valid_pixels(d) == Cardinality({j \in 1..Len(d) : ~isnan(d[j])})

-----------------------------------------------------------------------------
(* chm/resample_chm.py *)

\* np.std(valid_values) of the block, stored as float32: the nearest whole
\* number to sqrt(n * Q - S * S) / n, ties to even
NpStd(d, ks) ==
    LET n == Cardinality(ks)
        S == SumOver(d, ks)
        Q == SumOver(Square(d), ks)
        V == n * Q - S * S
        lower == ISqrt(V) \div n
        cands == {r \in {lower, lower + 1} :
                     /\ (r = 0 \/ (2 * r - 1) * (2 * r - 1) * n * n <= 4 * V)
                     /\ 4 * V <= (2 * r + 1) * (2 * r + 1) * n * n}
    IN  IF Cardinality(cands) = 1 THEN CHOOSE r \in cands : TRUE
        ELSE CHOOSE r \in cands : r % 2 = 0

\* resample_chm_aggregation(..., agg_method)
resample_chm_aggregation(src_data, src_origin, g, agg_method) ==
    CASE agg_method = "mean" -> AverageKernel(src_data, src_origin, g)
      [] agg_method = "max" -> MaxKernel(src_data, src_origin, g)
      [] agg_method = "std" ->
            \* block_size = int(dst_transform.a / src_transform.a), 1 m source pixels
            LET block_size == g.res \div 1
            IN  [j \in 1..g.width |->
                   LET start == (j - 1) * block_size
                       stop == Min2(start + block_size, Len(src_data))
                       ks == {k \in (start + 1)..stop : ~isnan(src_data[k])}
                   IN  IF Cardinality(ks) > 1 THEN NpStd(src_data, ks)
                       ELSE IF Cardinality(ks) = 1 THEN 0
                       ELSE NaN]

\* geometry_mask(city_boundary.geometry, ..., all_touched=True): the cells of
\* grid g the polygon touches
cells_in_city(g, polygon) ==
    {j \in 1..g.width :
        /\ g.origin + (j - 1) * g.res < polygon.hi
        /\ g.origin + j * g.res > polygon.lo}

\* stats["coverage_percent"] of resample_chm: over the whole grid, replaced by
\* the figure over the city's polygon when the boundary file can be read and
\* the polygon touches a cell
coverage_percent(dst_data, g) ==
    LET in_city == cells_in_city(g, gpkg.core)
        valid_in_city == Cardinality({j \in in_city : ~isnan(dst_data[j])})
        total_in_city == Cardinality(in_city)
    IN  IF gpkg.exists /\ total_in_city > 0
        THEN round2(100 * valid_in_city, total_in_city)
        ELSE round2(100 * valid_pixels(dst_data), Len(dst_data))

\* resample_chm.resample_chm: the file it writes and the statistics it returns
resample_chm(f, g, agg_method) ==
    LET src_data == ReadNoDataAsNaN(f)
        dst_data == resample_chm_aggregation(src_data, f.origin, g, agg_method)
    IN  [file |-> CoarseFile(NaNToNoData(dst_data), NODATA, g, "resample_chm"),
         input |-> [base |-> f, src_data |-> src_data],
         valid_pixels |-> valid_pixels(dst_data),
         coverage_percent |-> coverage_percent(dst_data, g)]

\* resample_chm.process_city: mean, max, std in turn; stats["min"] is absent
\* when a variant has no valid pixel, and printing it raises KeyError after
\* the variant's file was written
ResampleProcessCity ==
    /\ base.exists /\ "CHM" \notin corrupt
    /\ LET g == s2.resample
           mean == resample_chm(base, g, "mean")
           max == resample_chm(base, g, "max")
           std == resample_chm(base, g, "std")
           done == IF mean.valid_pixels = 0 THEN {"mean"}
                   ELSE IF max.valid_pixels = 0 THEN {"mean", "max"}
                   ELSE Variants
           out == [mean |-> mean, max |-> max, std |-> std]
       IN  /\ coarse' = [v \in Variants |->
                            IF v \in done THEN out[v].file ELSE coarse[v]]
           /\ aggregated' = [v \in Variants |->
                                IF v \in done THEN out[v].input ELSE aggregated[v]]
           /\ report' = [report EXCEPT !.coarse =
                            [v \in Variants |->
                                IF v \in done THEN out[v].coverage_percent ELSE @[v]]]
    /\ UNCHANGED <<city, boundary, dlVars, gpkg, chm_run, driverVars, toolVars,
                   elevVars, align, loaded, chm_raw, base, s2>>

-----------------------------------------------------------------------------
(* validation/validate_data.py, check 0.3 *)

\* a variant that returns the variance as it evaluates
StdFromMomentsRaw(mean_squared, mean_data) ==
    [j \in 1..Len(mean_data) |->
        IF isnan(mean_squared[j]) \/ isnan(mean_data[j]) THEN NaN
        ELSE mean_squared[j] - mean_data[j] * mean_data[j]]

\* np.sqrt(np.maximum(0, mean_squared - mean_data**2))
StdFromMoments(mean_squared, mean_data) ==
    [j \in 1..Len(mean_data) |->
        IF isnan(mean_squared[j]) \/ isnan(mean_data[j]) THEN NaN
        ELSE FlSqrt(Max2(0, mean_squared[j] - mean_data[j] * mean_data[j]))]

\* what check 0.3 computes for a variant from src_data = chm_src.read(1)
validate_aggregation(src_data, src_origin, g, method_name) ==
    CASE method_name = "mean" -> AverageKernel(src_data, src_origin, g)
      [] method_name = "max" -> MaxKernel(src_data, src_origin, g)
      [] method_name = "std" ->
            StdFromMoments(AverageKernel(Square(src_data), src_origin, g),
                           AverageKernel(src_data, src_origin, g))

\* check_0_3_resample_chm_extended, for the city: a variant whose file exists
\* is skipped; the others are computed and written with nodata = NaN
ValidateCheck03 ==
    /\ base.exists /\ "CHM" \notin corrupt
    /\ LET g == s2.validate
           src_data == base.data
       IN  /\ coarse' = [v \in Variants |->
                            IF coarse[v].exists THEN coarse[v]
                            ELSE CoarseFile(validate_aggregation(src_data, base.origin, g, v),
                                            NaN, g, "validate_data")]
           /\ aggregated' = [v \in Variants |->
                                IF coarse[v].exists THEN aggregated[v]
                                ELSE [base |-> base, src_data |-> src_data]]
    /\ UNCHANGED <<city, boundary, dlVars, gpkg, chm_run, report, driverVars, toolVars,
                   elevVars, align, loaded, chm_raw, base, s2>>

-----------------------------------------------------------------------------
(* elevation/<city>/download_elevation.py: tile pre-filters *)

\* Text is a sequence of characters.  A feed tile is a record
\*   title     the link's title, as text
\*   bbox      the tokens of the link's bbox attribute (<<>>: none)
\*   url_zip   whether the link's href ends with ".zip"
\*   foot      the tile's true footprint [minx, miny, maxx, maxy], in the
\*             CRS its feed describes it in
\*   data, origin           the raster of the tile, 1 m pixels along x
\*   download_ok, convert_ok, opens, e_negative
\*             how download, XYZ conversion and rasterio.open end for the
\*             tile, and whether its transform has e < 0
Digits == <<"0", "1", "2", "3", "4", "5", "6", "7", "8", "9">>
IsDigit(c) == \E d \in 1..10 : Digits[d] = c
DigitValue(c) == (CHOOSE d \in 1..10 : Digits[d] = c) - 1

\* int(text) and float(text) raise ValueError on text that is no number
ValueError == -1

RECURSIVE ParseDigits(_, _)
ParseDigits(text, acc) ==
    IF text = <<>> THEN acc
    ELSE ParseDigits(Tail(text), 10 * acc + DigitValue(Head(text)))

ParseInt(text) ==
    IF text # <<>> /\ \A i \in 1..Len(text) : IsDigit(text[i])
    THEN ParseDigits(text, 0)
    ELSE ValueError

\* how a feed writes a whole number below 100
FormatInt(n) ==
    IF n < 10 THEN <<Digits[n + 1]>>
    ELSE <<Digits[(n \div 10) + 1], Digits[(n % 10) + 1]>>

\* text.split("_")
RECURSIVE SplitIn(_, _, _)
SplitIn(text, part, parts) ==
    IF text = <<>> THEN Append(parts, part)
    ELSE IF Head(text) = "_" THEN SplitIn(Tail(text), <<>>, Append(parts, part))
    ELSE SplitIn(Tail(text), Append(part, Head(text)), parts)

Split(text) == SplitIn(text, <<>>, <<>>)

buffer_km == 2

\* the kilometre window of filter_tiles_by_coordinates
KmWindow(bounds) ==
    [minx_km |-> (bounds.minx \div 1000) - buffer_km,
     miny_km |-> (bounds.miny \div 1000) - buffer_km,
     maxx_km |-> (bounds.maxx \div 1000) + 1 + buffer_km,
     maxy_km |-> (bounds.maxy \div 1000) + 1 + buffer_km]

\* the loop body of filter_tiles_by_coordinates: whether the tile is appended
\* to candidate_tiles
BerlinKeepsTile(tile, w) ==
    LET parts == Split(tile.title)
    IN  IF Len(parts) >= 2
        THEN LET x_coord_km == ParseInt(parts[1])
                 y_coord_km == ParseInt(parts[2])
             IN  IF x_coord_km = ValueError \/ y_coord_km = ValueError
                 THEN TRUE      \* except (ValueError, IndexError): kept
                 ELSE /\ w.minx_km <= x_coord_km /\ x_coord_km <= w.maxx_km
                      /\ w.miny_km <= y_coord_km /\ y_coord_km <= w.maxy_km
        ELSE FALSE              \* neither branch of the if appends the tile

filter_tiles_by_coordinates(tiles, bounds) ==
    SelectSeq(tiles, LAMBDA tile : BerlinKeepsTile(tile, KmWindow(bounds)))

\* berlin parse_atom_feed: the links whose href ends with ".zip"
berlin_parse_atom_feed(links) == SelectSeq(links, LAMBDA tile : tile.url_zip)

NoBox == [ok |-> FALSE, minx |-> 0, miny |-> 0, maxx |-> 0, maxy |-> 0]

\* rostock parse_bbox: "lat1 lon1 lat2 lon2" -> (minx, miny, maxx, maxy), or None
parse_bbox(bbox_str) ==
    IF Len(bbox_str) # 4 \/ \E i \in 1..Len(bbox_str) : ParseInt(bbox_str[i]) = ValueError
    THEN NoBox
    ELSE LET lat1 == ParseInt(bbox_str[1])
             lon1 == ParseInt(bbox_str[2])
             lat2 == ParseInt(bbox_str[3])
             lon2 == ParseInt(bbox_str[4])
         IN  [ok |-> TRUE, minx |-> Min2(lon1, lon2), miny |-> Min2(lat1, lat2),
              maxx |-> Max2(lon1, lon2), maxy |-> Max2(lat1, lat2)]

\* shapely box(a).intersects(box(b)): closed rectangles
Intersects(a, b) ==
    /\ a.minx <= b.maxx /\ b.minx <= a.maxx
    /\ a.miny <= b.maxy /\ b.miny <= a.maxy

\* the loop body of rostock parse_atom_feed: whether the link becomes a tile
RostockKeepsTile(tile, boundary_bounds) ==
    /\ tile.url_zip
    /\ \/ tile.bbox = <<>>
       \/ ~parse_bbox(tile.bbox).ok
       \/ Intersects(parse_bbox(tile.bbox), boundary_bounds)

rostock_parse_atom_feed(links, boundary_bounds) ==
    SelectSeq(links, LAMBDA tile : RostockKeepsTile(tile, boundary_bounds))

-----------------------------------------------------------------------------
(* elevation/<city>/download_elevation.py: conversion, mosaic, main *)

SetMin(S) == CHOOSE x \in S : \A y \in S : x <= y
SetMax(S) == CHOOSE x \in S : \A y \in S : x >= y

\* the tiles process_single_tile returns a GeoTIFF path for
Converted(tiles) == SelectSeq(tiles, LAMBDA tile : tile.download_ok /\ tile.convert_ok)

\* the tiles rasterio.open succeeds on (src_files)
Opened(geotiff_paths) == SelectSeq(geotiff_paths, LAMBDA tile : tile.opens)

\* the tiles of a list that hold a valid value at world position x
ValidAt(tiles, x) ==
    {k \in 1..Len(tiles) :
        /\ tiles[k].origin <= x /\ x < tiles[k].origin + Len(tiles[k].data)
        /\ ~IsNoData(tiles[k].data[x - tiles[k].origin + 1], tiles[k].nodata)}

FillValue(nodata) == IF nodata = None THEN 0 ELSE nodata

\* among the tiles valid at a pixel, the one whose value the pixel takes
Pick(S, first) == IF first THEN SetMin(S) ELSE SetMax(S)

\* a mosaic over the union of the tiles' extents
Mosaic(tiles, first) ==
    LET lo == SetMin({tiles[k].origin : k \in 1..Len(tiles)})
        hi == SetMax({tiles[k].origin + Len(tiles[k].data) : k \in 1..Len(tiles)})
        nodata == tiles[1].nodata
    IN  File([i \in 1..(hi - lo) |->
                 LET x == lo + i - 1
                     S == ValidAt(tiles, x)
                 IN  IF S = {} THEN FillValue(nodata)
                     ELSE tiles[Pick(S, first)].data[x - tiles[Pick(S, first)].origin + 1]],
             nodata, lo)

\* rasterio.merge.merge(src_files, method="first")
merge_first(src_files) == Mosaic(src_files, TRUE)

\* gdalbuildvrt (it skips a file it cannot open): where sources overlap, the
\* one listed last is the one read
gdalbuildvrt(geotiff_paths) == Mosaic(geotiff_paths, FALSE)

NoMosaic == [ok |-> FALSE, error |-> "", method |-> "none", out |-> NoFile]

\* whether the boundary geometry touches the pixel at world position x
Touched(bounds, x) ==
    /\ bounds.minx <= x /\ x < bounds.maxx
    /\ ~(region.gap.lo <= x /\ x < region.gap.hi)

\* mask(src, boundary.geometry, crop=True, all_touched=True) on the mosaic:
\* cropped to the geometry's bounds, filled where the geometry touches no pixel
ClipToBoundary(mosaic, bounds, method) ==
    LET b == [lo |-> bounds.minx, hi |-> bounds.maxx]
    IN  IF ~ClipOverlaps(mosaic, b)
        THEN [NoMosaic EXCEPT !.error = "Input shapes do not overlap raster",
                              !.method = method]
        ELSE LET lo == ClipLo(mosaic, b)
                 n == ClipHi(mosaic, b) - lo
             IN  [ok |-> TRUE, error |-> "", method |-> method,
                  out |-> File([i \in 1..n |->
                                   IF Touched(bounds, lo + i - 1)
                                   THEN mosaic.data[lo + i - mosaic.origin]
                                   ELSE FillValue(mosaic.nodata)],
                               mosaic.nodata, lo)]

\* berlin / rostock mosaic_and_clip
mosaic_and_clip(geotiff_paths, bounds) ==
    IF Len(geotiff_paths) = 0
    THEN [NoMosaic EXCEPT !.error = "No GeoTIFF tiles to mosaic"]
    ELSE IF Len(Opened(geotiff_paths)) = 0
    THEN [NoMosaic EXCEPT !.error = "No valid GeoTIFF tiles to mosaic"]
    ELSE ClipToBoundary(merge_first(Opened(geotiff_paths)), bounds, "merge")

\* hamburg mosaic_with_gdalwarp: a VRT of all paths, rasterio.open of the
\* first path for its CRS, gdalwarp -te onto the boundary's bounds
mosaic_with_gdalwarp(geotiff_paths, bounds) ==
    IF ~geotiff_paths[1].opens
    THEN [NoMosaic EXCEPT !.error = "RasterioIOError", !.method = "gdalwarp"]
    ELSE LET vrt == gdalbuildvrt(Opened(geotiff_paths))
         IN  [ok |-> TRUE, error |-> "", method |-> "gdalwarp",
              out |-> File(Reproject(vrt.data, vrt.origin, vrt.nodata,
                                     bounds.maxx - bounds.minx, bounds.minx,
                                     FillValue(vrt.nodata)),
                           vrt.nodata, bounds.minx)]

\* hamburg mosaic_and_clip
hamburg_mosaic_and_clip(geotiff_paths, bounds) ==
    LET src_files == Opened(geotiff_paths)
        needs_flip == \E k \in 1..Len(src_files) : src_files[k].e_negative
    IN  IF Len(geotiff_paths) = 0
        THEN [NoMosaic EXCEPT !.error = "No GeoTIFF tiles to mosaic"]
        ELSE IF Len(src_files) = 0
        THEN [NoMosaic EXCEPT !.error = "No valid GeoTIFF tiles to mosaic"]
        ELSE IF needs_flip
        THEN mosaic_with_gdalwarp(geotiff_paths, bounds)
        ELSE ClipToBoundary(merge_first(src_files), bounds, "merge")

\* what process_elevation_data did for a data type
NotRun == [status |-> "none", error |-> "", tiles |-> <<>>, geotiff_paths |-> <<>>,
           method |-> "none", out |-> NoFile]

Failed(error, tiles, geotiff_paths, method) ==
    [status |-> "failed", error |-> error, tiles |-> tiles,
     geotiff_paths |-> geotiff_paths, method |-> method, out |-> NoFile]

\* output_path.exists() and validate_geotiff(output_path)
validate_geotiff(dt) == dt \notin corrupt
AlreadyValid(dt) == elev[dt].exists /\ validate_geotiff(dt)

\* the part of process_elevation_data after the tile list is known
ConvertAndMosaic(tiles, geotiff_paths, m) ==
    IF Len(geotiff_paths) = 0
    THEN Failed("No GeoTIFF tiles created", tiles, geotiff_paths, "none")
    ELSE IF ~m.ok THEN Failed(m.error, tiles, geotiff_paths, m.method)
    ELSE [status |-> "ok", error |-> "", tiles |-> tiles,
          geotiff_paths |-> geotiff_paths, method |-> m.method, out |-> m.out]

berlin_process_elevation_data(dt) ==
    IF AlreadyValid(dt) THEN [NotRun EXCEPT !.status = "skipped"]
    ELSE LET tiles == berlin_parse_atom_feed(feed[dt])
             filtered_tiles == filter_tiles_by_coordinates(tiles, region.bounds)
             geotiff_paths == Converted(filtered_tiles)
         IN  IF Len(filtered_tiles) = 0
             THEN Failed("No tiles found after filtering", filtered_tiles, <<>>, "none")
             ELSE ConvertAndMosaic(filtered_tiles, geotiff_paths,
                                   mosaic_and_clip(geotiff_paths, region.bounds))

Perms(n) == {f \in [1..n -> 1..n] : \A i, j \in 1..n : f[i] = f[j] => i = j}

\* rostock: the worker threads finish in any order (as_completed)
rostock_process_elevation_data(dt, completion) ==
    IF AlreadyValid(dt) THEN [NotRun EXCEPT !.status = "skipped"]
    ELSE LET tiles == rostock_parse_atom_feed(feed[dt], region.wgs84)
             done == [i \in 1..Len(tiles) |-> tiles[completion[dt][i]]]
             geotiff_paths == Converted(done)
         IN  IF Len(tiles) = 0
             THEN Failed("No tiles found after filtering", tiles, <<>>, "none")
             ELSE ConvertAndMosaic(tiles, geotiff_paths,
                                   mosaic_and_clip(geotiff_paths, region.bounds))

\* hamburg: one ZIP per data type; its XYZ files are the feed's tiles
hamburg_process_elevation_data(dt) ==
    IF AlreadyValid(dt) THEN [NotRun EXCEPT !.status = "skipped"]
    ELSE LET xyz_files == feed[dt]
             geotiff_paths == SelectSeq(xyz_files, LAMBDA tile : tile.convert_ok)
         IN  IF Len(xyz_files) = 0
             THEN Failed("No XYZ files found", xyz_files, <<>>, "none")
             ELSE ConvertAndMosaic(xyz_files, geotiff_paths,
                                   hamburg_mosaic_and_clip(geotiff_paths, region.bounds))

\* main() of a download script: DOM, then DGM; an exception is logged and
\* raised again. dom and dgm_run are what process_elevation_data does for
\* the two data types when it is called.
DownloadMain(dom, dgm_run) ==
    LET dgm == IF dom.status = "failed" THEN NotRun ELSE dgm_run
        res == [DOM |-> dom, DGM |-> dgm]
    IN  /\ dl' = res
        /\ elev' = [dt \in DataTypes |->
                       IF res[dt].status = "ok" THEN res[dt].out ELSE elev[dt]]
        /\ raw' = elev'
        /\ corrupt' = corrupt \ {dt \in DataTypes : res[dt].status = "ok"}
        /\ UNCHANGED <<city, boundary, harmonized, align, loaded, chm_raw, base,
                       gpkg, chm_run, report, driverVars, toolVars,
                       aggVars, region, feed>>

BerlinMain ==
    /\ city = "Berlin"
    /\ DownloadMain(berlin_process_elevation_data("DOM"),
                    berlin_process_elevation_data("DGM"))

HamburgMain ==
    /\ city = "Hamburg"
    /\ DownloadMain(hamburg_process_elevation_data("DOM"),
                    hamburg_process_elevation_data("DGM"))

RostockMain ==
    /\ city = "Rostock"
    /\ \E dom \in Perms(Len(rostock_parse_atom_feed(feed["DOM"], region.wgs84))) :
       \E dgm \in Perms(Len(rostock_parse_atom_feed(feed["DGM"], region.wgs84))) :
          DownloadMain(
              rostock_process_elevation_data("DOM", [DOM |-> dom, DGM |-> dgm]),
              rostock_process_elevation_data("DGM", [DOM |-> dom, DGM |-> dgm]))

-----------------------------------------------------------------------------
(* Bounds and initial states *)

ElevWidth == 2     \* pixels of a raw elevation raster
MaxShift == 1      \* largest offset between two grid origins, in fine pixels
NumPix == 2        \* pixels of the rasters the height derivation starts from
FineLen == 4       \* pixels of the base raster the aggregators start from
CoarseLen == 2     \* cells of a Sentinel-2 reference grid
CoarseRes == 2     \* fine pixels per coarse cell (10 in the repository)

\* the missing-value markers a downloaded raster may declare
NoDataDecls == {None, 0, TARGET_NODATA, HAMBURG_DGM_NODATA}

\* a raw pixel: a measured elevation, or "no measurement" in the city's convention
RawPixels(c, nd) ==
    {5} \cup (IF c = "Berlin" THEN {0} ELSE IF nd = None THEN {} ELSE {nd})

\* (surface, terrain) pairs of harmonised rasters: either missing, and
\* differences of -3, -2, -1, 0, 5, 55 and 61 m
PixelCases ==
    {<<TARGET_NODATA, 7>>, <<5, TARGET_NODATA>>, <<5, 8>>, <<5, 7>>, <<7, 8>>,
     <<7, 7>>, <<12, 7>>, <<62, 7>>, <<62, 1>>}

\* heights of a base raster as create_chm persists it
BaseHeights == {0, 1, 2}

NoHarmonized == [DOM |-> NoFile, DGM |-> NoFile,
                 src |-> [DOM |-> NoFile, DGM |-> NoFile]]
NoGrid == [origin |-> 0, width |-> 0, res |-> CoarseRes]

IdleChm ==
    /\ align = NoAlign
    /\ loaded = NoLoad
    /\ chm_raw = <<>>

IdleAgg ==
    /\ s2 = [resample |-> NoGrid, validate |-> NoGrid]
    /\ coarse = [v \in Variants |-> NoCoarse]
    /\ aggregated = [v \in Variants |-> NoInput]

NoBounds == [minx |-> 0, miny |-> 0, maxx |-> 0, maxy |-> 0]

\* a boundary in one part: no stretch between its parts
NoGap == [lo |-> 0, hi |-> 0]

IdleDl ==
    /\ region = [bounds |-> NoBounds, wgs84 |-> NoBounds, gap |-> NoGap]
    /\ feed = [dt \in DataTypes |-> <<>>]
    /\ dl = [dt \in DataTypes |-> NotRun]
    /\ corrupt = {}

NoPercent == -1    \* no figure reported

NoReport == [full |-> NoPercent, core |-> NoPercent,
             coarse |-> [v \in Variants |-> NoPercent]]

NoCity == [dom_dgm |-> FALSE, chm |-> FALSE, s2 |-> FALSE, chm_10m |-> FALSE]
NoDriver == [script |-> "none", cities |-> <<>>, visited |-> <<>>, errors |-> <<>>]

\* no driver has run; the boundary file exists and the city's polygon is the
\* boundary itself
IdleRun ==
    /\ gpkg = [exists |-> TRUE, core |-> boundary]
    /\ chm_run = "none"
    /\ report = NoReport
    /\ fleet = [c \in CITIES |-> NoCity]
    /\ drv = NoDriver

NoPool == [script |-> "none", tiles |-> <<>>, pc |-> <<>>, wrote |-> <<>>, disk |-> {}]

NoXyz == [points |-> <<>>, done |-> FALSE, width |-> 0, height |-> 0, raster |-> <<>>]

\* no create_chm run yet: no sidecar, no row in the CSV; the city has a row in
\* city_boundaries.gpkg
NoStats == [listed |-> TRUE, sidecar |-> FALSE, returned |-> "none", csv |-> FALSE]

\* no validation run yet; per city the reference raster has 10 m pixels (a, in
\* centimetres) at the origin of the CHM, 85 % of the trees are plausible and
\* the offset scan finds its maximum at (0, 0)
NoRef == [a |-> 1000, c |-> 0, f |-> 0]
NoResult == [status |-> "none", x_offset_diff_m |-> 0, y_offset_diff_m |-> 0]
NoVal == [crs_ok |-> TRUE,
          ref |-> [n \in CITIES |-> NoRef],
          chm_origin |-> [n \in CITIES |-> [c |-> 0, f |-> 0]],
          plausible_pct |-> [n \in CITIES |-> 85],
          best |-> [n \in CITIES |-> <<0, 0>>],
          ndvi |-> <<>>,
          scan |-> <<>>,
          ran |-> <<>>,
          grid |-> [n \in CITIES |-> NoResult],
          plausibility |-> [n \in CITIES |-> "none"],
          flagged |-> {},
          report |-> FALSE]

\* no worker pool was started, no conversion and no validation has run
IdleTools ==
    /\ pool = NoPool
    /\ xyz = NoXyz
    /\ chm_stats = NoStats
    /\ val = NoVal

\* raw downloads of one city, before harmonize_elevation
InitElev ==
    /\ city \in CITIES
    /\ boundary = [lo |-> 0, hi |-> ElevWidth]
    /\ \E dom_nd \in NoDataDecls, dgm_nd \in NoDataDecls,
          dgm_len \in {ElevWidth - 1, ElevWidth}, dgm_origin \in 0..MaxShift :
         \E dom_data \in [1..ElevWidth -> RawPixels(city, dom_nd)],
            dgm_data \in [1..dgm_len -> RawPixels(city, dgm_nd)] :
            raw = [DOM |-> File(dom_data, dom_nd, 0),
                   DGM |-> File(dgm_data, dgm_nd, dgm_origin)]
    /\ elev = raw
    /\ harmonized = NoHarmonized
    /\ base = NoFile
    /\ IdleChm
    /\ IdleAgg
    /\ IdleDl
    /\ IdleRun
    /\ IdleTools

\* harmonised and aligned DOM/DGM, before create_chm
InitDerive ==
    /\ city = "Berlin"
    /\ boundary = [lo |-> 0, hi |-> NumPix]
    /\ \E px \in [1..NumPix -> PixelCases] :
         raw = [DOM |-> File([k \in 1..NumPix |-> px[k][1]], TARGET_NODATA, 0),
                DGM |-> File([k \in 1..NumPix |-> px[k][2]], TARGET_NODATA, 0)]
    /\ elev = raw
    /\ harmonized = NoHarmonized
    /\ base = NoFile
    /\ IdleChm
    /\ IdleAgg
    /\ IdleDl
    /\ IdleRun
    /\ IdleTools

\* a base raster as create_chm persisted it, and the Sentinel-2 grids
InitAgg ==
    /\ city = "Berlin"
    /\ boundary = [lo |-> 0, hi |-> FineLen]
    /\ raw = [DOM |-> NoFile, DGM |-> NoFile]
    /\ elev = raw
    /\ harmonized = NoHarmonized
    /\ IdleChm
    /\ \E d \in [1..FineLen -> BaseHeights \cup {NaN}] : base = File(d, NaN, 0)
    /\ \E o1 \in 0..MaxShift, o2 \in 0..MaxShift :
         s2 = [resample |-> [origin |-> o1, width |-> CoarseLen, res |-> CoarseRes],
               validate |-> [origin |-> o2, width |-> CoarseLen, res |-> CoarseRes]]
    /\ coarse = [v \in Variants |-> NoCoarse]
    /\ aggregated = [v \in Variants |-> NoInput]
    /\ IdleDl
    /\ IdleRun
    /\ IdleTools

NextElev == HarmonizeElevation \/ CreateChm
NextDerive == CreateChm \/ HarmonizeChm
NextAgg == HarmonizeChm \/ ResampleProcessCity \/ ValidateCheck03

SpecElev == InitElev /\ [][NextElev]_vars
SpecDerive == InitDerive /\ [][NextDerive]_vars
SpecAgg == InitAgg /\ [][NextAgg]_vars

Init == InitElev \/ InitDerive \/ InitAgg
Next == HarmonizeElevation \/ CreateChm \/ HarmonizeChm \/ ResampleProcessCity
            \/ ValidateCheck03
Spec == Init /\ [][Next]_vars

-----------------------------------------------------------------------------
(* Initial states of the download scripts *)

MaxTiles == 2      \* tiles a feed lists for a data type in the mosaic runs

Tile(title, bbox, url_zip, foot, data, origin, nodata, fail, e_negative) ==
    [title |-> title, bbox |-> bbox, url_zip |-> url_zip, foot |-> foot,
     data |-> data, origin |-> origin, nodata |-> nodata,
     download_ok |-> fail # "download", convert_ok |-> fail # "convert",
     opens |-> fail # "open", e_negative |-> e_negative]

\* the city's bounds: kilometres 4..5 (metres) and degrees 4..5
RegionBounds ==
    {[minx |-> minx, miny |-> 4000, maxx |-> maxx, maxy |-> 5999] :
        minx \in {4000, 4999}, maxx \in {5000, 5999}}
RegionWgs84 == [minx |-> 4, miny |-> 4, maxx |-> 5, maxy |-> 5]

\* kilometre indices a Berlin tile name may carry
KmNames == {1, 2, 5, 6, 9}

\* a Berlin tile named x_y covers the 2 km square whose lower left corner is
\* (x km, y km)
BerlinFoot(x, y) ==
    [minx |-> 1000 * x, miny |-> 1000 * y,
     maxx |-> 1000 * (x + 2), maxy |-> 1000 * (y + 2)]

\* titles that do not hold two kilometre indices
BadTitles ==
    {<<>>, <<"5", "5">>, <<"D", "_", "5">>, <<"5", "_">>, <<"5", "-", "5">>,
     <<"_", "5", "5">>}

\* bbox attributes that are no "lat1 lon1 lat2 lon2"
BadBboxes ==
    {<<>>, <<<<"4">>, <<"4">>, <<"5">>>>,
     <<<<"4">>, <<"4">>, <<"5">>, <<"5">>, <<"4">>>>,
     <<<<"4">>, <<"x">>, <<"5">>, <<"5">>>>,
     <<<<"4">>, <<>>, <<"5">>, <<"5">>>>}

\* the bbox attribute of a footprint, one corner first or the other
BboxAttr(foot, swapped) ==
    IF swapped
    THEN <<FormatInt(foot.maxy), FormatInt(foot.maxx),
           FormatInt(foot.miny), FormatInt(foot.minx)>>
    ELSE <<FormatInt(foot.miny), FormatInt(foot.minx),
           FormatInt(foot.maxy), FormatInt(foot.maxx)>>

DegreeFeet ==
    {[minx |-> x, miny |-> y, maxx |-> x + 1, maxy |-> y + 1] :
        x \in {2, 3, 5, 6}, y \in {3, 5, 6}}

\* a feed link, with a raster that lies in the region
FeedLink(title, bbox, url_zip, foot, b) ==
    Tile(title, bbox, url_zip, foot, <<5>>, b.minx, NODATA, "none", TRUE)

BerlinLinks(b) ==
    {FeedLink(FormatInt(x) \o <<"_">> \o FormatInt(y), <<>>, z, BerlinFoot(x, y), b) :
        x \in KmNames, y \in KmNames, z \in BOOLEAN}
    \cup {FeedLink(t, <<>>, z, BerlinFoot(5, 5), b) : t \in BadTitles, z \in BOOLEAN}

RostockLinks(b) ==
    {FeedLink(<<"d">>, BboxAttr(f, sw), z, f, b) :
        f \in DegreeFeet, sw \in BOOLEAN, z \in BOOLEAN}
    \cup {FeedLink(<<"d">>, bb, z, RegionWgs84, b) : bb \in BadBboxes, z \in BOOLEAN}

IdlePipeline ==
    /\ boundary = [lo |-> 0, hi |-> 0]
    /\ raw = [DOM |-> NoFile, DGM |-> NoFile]
    /\ elev = raw
    /\ harmonized = NoHarmonized
    /\ base = NoFile
    /\ IdleChm
    /\ IdleAgg
    /\ IdleRun

\* a feed with one link per data type, before the download script runs
InitTiles ==
    /\ city \in {"Berlin", "Rostock"}
    /\ \E b \in RegionBounds :
         /\ region = [bounds |-> b, wgs84 |-> RegionWgs84, gap |-> NoGap]
         /\ \E link \in (IF city = "Berlin" THEN BerlinLinks(b) ELSE RostockLinks(b)) :
               feed = [dt \in DataTypes |-> <<link>>]
    /\ dl = [dt \in DataTypes |-> NotRun]
    /\ corrupt = {}
    /\ IdlePipeline
    /\ IdleTools

NextTiles == BerlinMain \/ RostockMain
SpecTiles == InitTiles /\ [][NextTiles]_vars

\* the boundary of the mosaic runs: pixels 4000..4002
MosaicBounds == [minx |-> 4000, miny |-> 4000, maxx |-> 4003, maxy |-> 5999]

\* the rasters of the tiles: two pixels each, the second starting on the
\* first one's second pixel with another height; where tiles declare a
\* marker, a third whose first pixel is missing
TileRasters(nodata) ==
    {[data |-> <<10, 10>>, origin |-> 4000], [data |-> <<20, 20>>, origin |-> 4001]}
    \cup (IF nodata = None THEN {}
          ELSE {[data |-> <<nodata, 30>>, origin |-> 4001]})

\* what happens to a tile on its way into the mosaic
TileFates(c) ==
    IF c = "Hamburg" THEN {"none", "convert", "open"}
    ELSE {"none", "download", "convert", "open"}

\* the converted tiles of Berlin and Hamburg declare no marker, Rostock's
\* declare -9999
TileNoData(c) == IF c = "Rostock" THEN NODATA ELSE None

\* tiles inside the boundary, and one tile the pre-filter rejects
MosaicTiles(c) ==
    {Tile(<<"5", "_", "5">>, BboxAttr(RegionWgs84, FALSE), TRUE,
          (IF c = "Rostock" THEN RegionWgs84 ELSE BerlinFoot(5, 5)),
          r.data, r.origin, TileNoData(c), f, e) :
        r \in TileRasters(TileNoData(c)), f \in TileFates(c),
        e \in (IF c = "Hamburg" THEN BOOLEAN ELSE {TRUE})}
    \cup (IF c = "Hamburg" THEN {}
          ELSE {Tile(<<"9", "_", "9">>,
                     BboxAttr([minx |-> 7, miny |-> 7, maxx |-> 8, maxy |-> 8], FALSE),
                     TRUE,
                     (IF c = "Rostock" THEN [minx |-> 7, miny |-> 7, maxx |-> 8, maxy |-> 8]
                      ELSE BerlinFoot(9, 9)),
                     <<10, 10>>, 4000, TileNoData(c), "none", TRUE)})

GoodTile(c) ==
    Tile(<<"5", "_", "5">>, BboxAttr(RegionWgs84, FALSE), TRUE,
         (IF c = "Rostock" THEN RegionWgs84 ELSE BerlinFoot(5, 5)),
         <<10, 10>>, 4000, TileNoData(c), "none", TRUE)

SeqsUpTo(S, n) == UNION {[1..k -> S] : k \in 0..n}

\* a city whose DOM feed lists up to MaxTiles tiles, no output written yet
InitMosaic ==
    /\ city \in CITIES
    /\ region = [bounds |-> MosaicBounds, wgs84 |-> RegionWgs84, gap |-> NoGap]
    /\ \E dom \in SeqsUpTo(MosaicTiles(city), MaxTiles) :
       \E dgm \in {<<>>, <<GoodTile(city)>>} :
          feed = [DOM |-> dom, DGM |-> dgm]
    /\ dl = [dt \in DataTypes |-> NotRun]
    /\ corrupt = {}
    /\ IdlePipeline
    /\ IdleTools

NextMosaic == BerlinMain \/ HamburgMain \/ RostockMain
SpecMosaic == InitMosaic /\ [][NextMosaic]_vars

-----------------------------------------------------------------------------
(* The multi-city drivers: create_chm.main, harmonize_chm.main,
   resample_chm.main.  Per city only the existence of its files matters:
   dom_dgm (dom_1m.tif and dgm_1m.tif), chm (CHM_1m_<city>.tif), s2 (the
   Sentinel-2 reference), chm_10m (the CHM_10m files). *)

\* CITIES of create_chm.py, and CITIES of scripts/config.py
create_chm_CITIES == <<"Hamburg", "Berlin", "Rostock">>
config_CITIES == <<"Berlin", "Hamburg", "Rostock">>

\* the cities whose processing raises: create_chm.process_city skips a city
\* whose CHM exists and cannot open missing DOM/DGM files; harmonize_city
\* cannot open a missing CHM; resample_chm.process_city needs the Sentinel-2
\* reference and the CHM
create_chm_raises == {c \in CITIES : ~fleet[c].chm /\ ~fleet[c].dom_dgm}
harmonize_city_raises == {c \in CITIES : ~fleet[c].chm}
resample_process_city_raises == {c \in CITIES : ~fleet[c].s2 \/ ~fleet[c].chm}

\* "for city in CITIES: process(city)" with no try around the call: the
\* cities the loop gets to, the raising one included
LoopWithoutTry(cities, raising) ==
    LET bad == {i \in 1..Len(cities) : cities[i] \in raising}
    IN  IF bad = {} THEN cities ELSE SubSeq(cities, 1, SetMin(bad))

Driver(script, cities, visited, raising) ==
    [script |-> script, cities |-> cities, visited |-> visited,
     errors |-> SelectSeq(visited, LAMBDA c : c \in raising)]

Done(visited, raising) == {visited[i] : i \in 1..Len(visited)} \ raising

\* create_chm.main
CreateChmMain ==
    /\ gpkg.exists
    /\ LET visited == LoopWithoutTry(create_chm_CITIES, create_chm_raises)
       IN  /\ drv' = Driver("create_chm", create_chm_CITIES, visited, create_chm_raises)
           /\ fleet' = [c \in CITIES |->
                           IF c \in Done(visited, create_chm_raises)
                           THEN [fleet[c] EXCEPT !.chm = TRUE] ELSE fleet[c]]
    /\ UNCHANGED <<city, boundary, elevVars, align, loaded, chm_raw, base, aggVars,
                   dlVars, gpkg, chm_run, report, toolVars>>

\* harmonize_chm.main: asks for confirmation, then overwrites each CHM
HarmonizeChmMain ==
    /\ \E response \in BOOLEAN :
          drv' = IF response
                 THEN Driver("harmonize_chm", config_CITIES,
                             LoopWithoutTry(config_CITIES, harmonize_city_raises),
                             harmonize_city_raises)
                 ELSE Driver("harmonize_chm", <<>>, <<>>, {})
    /\ UNCHANGED <<city, boundary, elevVars, align, loaded, chm_raw, base, aggVars,
                   dlVars, gpkg, chm_run, report, fleet, toolVars>>

\* resample_chm.main: try/except around each city
ResampleChmMain ==
    /\ drv' = Driver("resample_chm", config_CITIES, config_CITIES,
                     resample_process_city_raises)
    /\ fleet' = [c \in CITIES |->
                    IF c \in resample_process_city_raises THEN fleet[c]
                    ELSE [fleet[c] EXCEPT !.chm_10m = TRUE]]
    /\ UNCHANGED <<city, boundary, elevVars, align, loaded, chm_raw, base, aggVars,
                   dlVars, gpkg, chm_run, report, toolVars>>

\* the files of the three cities before a driver runs
InitDrivers ==
    /\ city = "Berlin"
    /\ boundary = [lo |-> 0, hi |-> 0]
    /\ raw = [DOM |-> NoFile, DGM |-> NoFile]
    /\ elev = raw
    /\ harmonized = NoHarmonized
    /\ base = NoFile
    /\ IdleChm
    /\ IdleAgg
    /\ IdleDl
    /\ gpkg = [exists |-> TRUE, core |-> boundary]
    /\ chm_run = "none"
    /\ report = NoReport
    /\ fleet \in [CITIES -> [dom_dgm : BOOLEAN, chm : BOOLEAN, s2 : BOOLEAN,
                             chm_10m : {FALSE}]]
    /\ drv = NoDriver
    /\ IdleTools

NextDrivers == CreateChmMain \/ HarmonizeChmMain \/ ResampleChmMain
SpecDrivers == InitDrivers /\ [][NextDrivers]_vars

-----------------------------------------------------------------------------
(* A later run of the Rostock download and of create_chm: outputs of an
   earlier run may exist, and an existing file may be unreadable *)

\* an output raster an earlier run left
EarlierOutput == File(<<10, 10>>, NODATA, MosaicBounds.minx)
EarlierChm == File(<<0, 0>>, NaN, MosaicBounds.minx)

InitResume ==
    /\ city = "Rostock"
    /\ boundary = [lo |-> MosaicBounds.minx, hi |-> MosaicBounds.maxx]
    /\ region = [bounds |-> MosaicBounds, wgs84 |-> RegionWgs84, gap |-> NoGap]
    /\ \E dom \in SeqsUpTo(MosaicTiles(city), 1) :
          feed = [DOM |-> dom, DGM |-> <<GoodTile(city)>>]
    /\ elev \in [DataTypes -> {NoFile, EarlierOutput}]
    /\ raw = elev
    /\ base \in {NoFile} \cup (IF \A dt \in DataTypes : elev[dt].exists
                               THEN {EarlierChm} ELSE {})
    /\ corrupt \in SUBSET ({dt \in DataTypes : elev[dt].exists}
                           \cup (IF base.exists THEN {"CHM"} ELSE {}))
    /\ dl = [dt \in DataTypes |-> NotRun]
    /\ harmonized = NoHarmonized
    /\ IdleChm
    /\ IdleAgg
    /\ IdleRun
    /\ IdleTools

NextResume == RostockMain \/ CreateChm
SpecResume == InitResume /\ [][NextResume]_vars

-----------------------------------------------------------------------------
(* Properties of the height derivation (SpecDerive) *)

HighThresholds == {0, 4, 50, 60, 61}

InRange(v, lo, hi) == v >= lo /\ v <= hi

\* C1: after apply_quality_filters(chm, neg_threshold=0, max_threshold=H) every
\* non-missing pixel lies in [0, H], for every H; and every valid pixel of the
\* base raster on disk, as create_chm or harmonize_chm persisted it, lies in
\* [0, MAX_HEIGHT_THRESHOLD].
C1_ValidHeightsInRange ==
    /\ \A H \in HighThresholds :
         LET r == apply_quality_filters(chm_raw, 0, H).chm_clean
         IN  \A k \in 1..Len(r) : ~isnan(r[k]) => InRange(r[k], 0, H)
    /\ base.exists =>
         \A k \in 1..Len(base.data) :
            ~Missing(base, k) => InRange(base.data[k], 0, MAX_HEIGHT_THRESHOLD)

\* a raster with an outlier and a valid height went through both filter passes
C1_Witness ==
    /\ base.exists /\ base.nodata = NODATA
    /\ \E k \in 1..Len(chm_raw) : Gt(chm_raw[k], MAX_HEIGHT_THRESHOLD) /\ Missing(base, k)
    /\ \E k \in 1..Len(base.data) : ~Missing(base, k) /\ base.data[k] > 0

\* C2: under the default policy a pixel whose surface-minus-terrain difference
\* is negative is missing in the base raster (it keeps neither its negative
\* value nor becomes 0), also after harmonize_chm rewrote the raster.
C2_NegativeIsMissing ==
    base.exists =>
        \A k \in 1..Len(chm_raw) : Lt(chm_raw[k], 0) => Missing(base, k)

\* a difference in the band harmonize_chm zeroes, after harmonize_chm ran
C2_Witness ==
    /\ base.exists /\ base.nodata = NODATA
    /\ \E k \in 1..Len(chm_raw) :
          /\ Ge(chm_raw[k], SLIGHTLY_NEGATIVE_MIN) /\ Lt(chm_raw[k], 0)
          /\ Missing(base, k)

\* C3: compute_chm returns dom - dgm where both inputs are valid and missing
\* where either is missing, never 0 or another valid value.
C3_DifferenceOrMissing ==
    (align.step = "load_and_clip_elevation" /\ align.ok) =>
        /\ Len(chm_raw) = Len(loaded.dom)
        /\ \A k \in 1..Len(chm_raw) :
              IF loaded.dom[k] # NaN /\ loaded.dgm[k] # NaN
              THEN chm_raw[k] = loaded.dom[k] - loaded.dgm[k]
              ELSE chm_raw[k] = NaN

\* one pixel without surface, one without terrain... and one with both
C3_Witness ==
    /\ align.step = "load_and_clip_elevation"
    /\ \E k \in 1..Len(chm_raw) :
          (isnan(loaded.dom[k]) \/ isnan(loaded.dgm[k])) /\ isnan(chm_raw[k])
    /\ \E k \in 1..Len(chm_raw) : ~isnan(chm_raw[k])

-----------------------------------------------------------------------------
(* Properties of the elevation harmonisation and alignment (SpecElev) *)

\* whether pixel k of a downloaded raster is missing in its city's convention
SourceMissing(c, src, k) ==
    IF c = "Berlin" THEN src.data[k] = 0
    ELSE src.nodata # None /\ src.data[k] = src.nodata

\* C4: for every city and declared marker the NoData harmonizer's output
\* declares -9999, a pixel of it is -9999 exactly when it was missing in the
\* source's convention, and every other pixel is unchanged.
C4_CanonicalMarker ==
    \A t \in DataTypes :
        harmonized[t].exists =>
            LET src == harmonized.src[t]
                out == harmonized[t]
            IN  /\ out.nodata = TARGET_NODATA
                /\ Len(out.data) = Len(src.data)
                /\ \A k \in 1..Len(src.data) :
                      /\ (out.data[k] = TARGET_NODATA) <=> SourceMissing(city, src, k)
                      /\ ~SourceMissing(city, src, k) => out.data[k] = src.data[k]

\* C6: after an alignment step the resampled raster has the reference
\* raster's shape; the assertion dom.shape == dgm.shape never fails.
C6_ShapesEqualAfterAlignment ==
    /\ align.step # "none" => (align.ok /\ align.dom_shape = align.dgm_shape)
    /\ align.step = "load_and_clip_elevation" => Len(loaded.dom) = Len(loaded.dgm)
    /\ harmonized["DOM"].exists =>
          /\ Len(elev["DGM"].data) = Len(elev["DOM"].data)
          /\ elev["DGM"].origin = elev["DOM"].origin

\* the resampling branch ran on clips of different shapes
C6_Witness ==
    /\ align.step = "load_and_clip_elevation"
    /\ "DOM" \in align.resampled
    /\ Len(loaded.dom_clipped.data) # Len(loaded.dgm)

\* C7: in every alignment step the surface raster is the reference grid and
\* keeps its pixel values; only the terrain raster is resampled.
C7_SurfaceIsReference ==
    /\ "DOM" \notin align.resampled
    /\ align.step = "load_and_clip_elevation" =>
          /\ loaded.origin = loaded.dom_clipped.origin
          /\ loaded.dom = loaded.dom_clipped.data

-----------------------------------------------------------------------------
(* Properties of the multi-resolution aggregation (SpecAgg) *)

\* the base raster with every missing pixel, under its declared marker, as NaN
ValidOnly(f) == [k \in 1..Len(f.data) |-> IF Missing(f, k) THEN NaN ELSE f.data[k]]

\* a coarse file's cells with its missing cells as NaN
CoarseData(c) ==
    [j \in 1..Len(c.data) |->
        IF c.data[j] = NaN \/ IsNoData(c.data[j], c.nodata) THEN NaN ELSE c.data[j]]

\* the valid fine pixels of base raster f that lie in cell j of grid g
ValidInCell(f, g, j) ==
    {k \in CellPixels(Len(f.data), f.origin, g, j) : ~Missing(f, k)}

\* C5: every stage that aggregates the base raster treats its missing pixels
\* as missing, whichever marker it was persisted with (NaN or -9999): no
\* missing pixel is handed to a kernel as a height, and each mean and max cell
\* is the kernel's value over the valid fine pixels of the cell.
C5_MissingStaysMissing ==
    \A v \in Variants :
        coarse[v].exists =>
            LET f == aggregated[v].base
                src_data == aggregated[v].src_data
                g == coarse[v].grid
            IN  /\ \A k \in 1..Len(src_data) : Missing(f, k) => isnan(src_data[k])
                /\ v = "mean" =>
                      CoarseData(coarse[v]) = AverageKernel(ValidOnly(f), f.origin, g)
                /\ v = "max" =>
                      CoarseData(coarse[v]) = MaxKernel(ValidOnly(f), f.origin, g)

\* C8: after any sequence of runs of the two producers, the coarse variants
\* that exist have identical width and transform, those of a reference raster.
C8_VariantsShareGrid ==
    \A v \in Variants, w \in Variants :
        (coarse[v].exists /\ coarse[w].exists) =>
            /\ coarse[v].grid = coarse[w].grid
            /\ Len(coarse[v].data) = Len(coarse[w].data)
            /\ coarse[v].grid \in {s2.resample, s2.validate}

\* sqrt(max(0, E[X^2] - E[X]^2)) over the valid fine pixels of cell j
MomentStd(f, g, j) ==
    LET ks == ValidInCell(f, g, j)
        n == Cardinality(ks)
    IN  IF n = 0 THEN NaN
        ELSE LET EX == Fl(SumOver(f.data, ks), n)
                 EX2 == Fl(SumOver(Square(f.data), ks), n)
             IN  FlSqrt(Max2(0, EX2 - EX * EX))

\* C9: every cell of the std variant is sqrt(max(0, E[X^2] - E[X]^2)) over
\* the valid fine pixels of that cell, and missing when the cell has none.
C9_StdIsMomentFormula ==
    coarse["std"].exists =>
        LET f == aggregated["std"].base
            g == coarse["std"].grid
        IN  /\ Len(coarse["std"].data) = g.width
            /\ \A j \in 1..g.width : CoarseData(coarse["std"])[j] = MomentStd(f, g, j)

\* C10: every defined cell of every std output is >= 0, also where
\* E[X^2] - E[X]^2 evaluates below 0.
C10_StdNonNegative ==
    coarse["std"].exists =>
        \A j \in 1..Len(coarse["std"].data) :
            ~isnan(CoarseData(coarse["std"])[j]) => coarse["std"].data[j] >= 0

\* check 0.3 wrote a std cell whose E[X^2] - E[X]^2 evaluated below 0
C10_Witness ==
    /\ coarse["std"].exists /\ coarse["std"].by = "validate_data"
    /\ LET src == aggregated["std"].src_data
           o == aggregated["std"].base.origin
           g == coarse["std"].grid
           EX == AverageKernel(src, o, g)
           EX2 == AverageKernel(Square(src), o, g)
       IN  \E j \in 1..g.width :
              /\ ~isnan(EX[j])
              /\ EX2[j] - EX[j] * EX[j] < 0
              /\ coarse["std"].data[j] = 0

-----------------------------------------------------------------------------
(* Properties of the tile pre-filters (SpecTiles) *)

InSeq(x, seq) == \E i \in 1..Len(seq) : seq[i] = x

\* the pre-filter ran for the data type in the last main()
PreFiltered(dt) == dl[dt].status \in {"ok", "failed"}

\* the region's bounds in the CRS the city's feed describes its tiles in
TargetBounds == IF city = "Berlin" THEN region.bounds ELSE region.wgs84

\* two kilometre indices can be read from a Berlin title
HasKmIndices(title) ==
    /\ Len(Split(title)) >= 2
    /\ ParseInt(Split(title)[1]) # ValueError
    /\ ParseInt(Split(title)[2]) # ValueError

\* a Rostock bbox attribute holds four numbers
HasBox(bbox) ==
    /\ Len(bbox) = 4
    /\ \A i \in 1..4 : ParseInt(bbox[i]) # ValueError

Parseable(tile) == IF city = "Berlin" THEN HasKmIndices(tile.title) ELSE HasBox(tile.bbox)

\* C11: zero false negatives: every catalog tile (a .zip link of the feed)
\* whose true footprint intersects the target region is in the filtered list,
\* for the kilometre-index filter and for the bbox filter.
C11_NoFalseNegatives ==
    \A dt \in DataTypes :
        PreFiltered(dt) =>
            \A i \in 1..Len(feed[dt]) :
                (feed[dt][i].url_zip /\ Intersects(feed[dt][i].foot, TargetBounds))
                    => InSeq(feed[dt][i], dl[dt].tiles)

\* the same for the tiles whose name or bbox holds coordinates
ParseableTilesRetained ==
    \A dt \in DataTypes :
        PreFiltered(dt) =>
            \A i \in 1..Len(feed[dt]) :
                (/\ feed[dt][i].url_zip
                 /\ Parseable(feed[dt][i])
                 /\ Intersects(feed[dt][i].foot, TargetBounds))
                    => InSeq(feed[dt][i], dl[dt].tiles)

\* C12: fail open: every catalog tile whose title does not yield two integer
\* kilometre indices, or whose bbox is missing or malformed, is in the
\* filtered list.
C12_UnparseableKept ==
    \A dt \in DataTypes :
        PreFiltered(dt) =>
            \A i \in 1..Len(feed[dt]) :
                (feed[dt][i].url_zip /\ ~Parseable(feed[dt][i]))
                    => InSeq(feed[dt][i], dl[dt].tiles)

-----------------------------------------------------------------------------
(* Properties of the mosaics (SpecMosaic) *)

\* the tiles that went into the mosaic of a data type, in processing order
MosaicInputs(dt) == Opened(dl[dt].geotiff_paths)

\* the value the output of a data type holds at world position x
OutAt(dt, x) == dl[dt].out.data[x - dl[dt].out.origin + 1]

\* the value of the first processed tile that is valid at x
FirstValueAt(tiles, x) ==
    tiles[SetMin(ValidAt(tiles, x))].data[x - tiles[SetMin(ValidAt(tiles, x))].origin + 1]

\* C13: in every mosaic path, a pixel that some tile holds a valid value
\* for has, in the output, the value of the first processed tile valid
\* there: a later tile never overwrites it.
C13_FirstTileWins ==
    \A dt \in DataTypes :
        dl[dt].status = "ok" =>
            \A x \in dl[dt].out.origin .. (dl[dt].out.origin + Len(dl[dt].out.data) - 1) :
                ValidAt(MosaicInputs(dt), x) # {}
                    => OutAt(dt, x) = FirstValueAt(MosaicInputs(dt), x)

\* a tile of the filtered list that converted and opens
Usable(tile) == tile.download_ok /\ tile.convert_ok /\ tile.opens

\* C14: a tile that fails to download, convert or open never aborts the
\* mosaic of the others: when the filtered list of a data type holds a
\* usable tile, the data type does not fail.
C14_FailedTilesSkipped ==
    \A dt \in DataTypes :
        (\E i \in 1..Len(dl[dt].tiles) : Usable(dl[dt].tiles[i]))
            => dl[dt].status # "failed"

\* zero tiles remained after the pre-filter or after conversion
NoTilesLeft(dt) ==
    /\ dl[dt].status = "failed"
    /\ Len(dl[dt].tiles) = 0 \/ Len(dl[dt].geotiff_paths) = 0

\* C15: a data type with zero tiles after the pre-filter or after conversion
\* fails, writes no output raster, and the sibling data type (DGM after a
\* failed DOM) is still processed.
C15_SiblingStillProcessed ==
    NoTilesLeft("DOM") =>
        /\ ~dl["DOM"].out.exists
        /\ ~elev["DOM"].exists
        /\ dl["DGM"].status # "none"

-----------------------------------------------------------------------------
(* Properties of the multi-city drivers (SpecDrivers) *)

\* C16: in every multi-city driver an error raised for one city aborts only
\* that city: the driver gets to every city of its list.
C16_LaterCitiesProcessed ==
    drv.script # "none" => drv.visited = drv.cities

-----------------------------------------------------------------------------
(* Properties of resumed runs (SpecDerive, SpecResume) *)

\* what a forced run (skip_existing=False) writes from the DOM, DGM and
\* boundary on disk
ForcedOutput == process_city_steps.output

\* C17: a run of create_chm.process_city that skips, on unchanged DOM, DGM
\* and boundary, leaves on disk a base raster identical to the one a forced
\* run writes, whatever ran since the raster was first written.
C17_SkipMatchesForced ==
    [][(CreateChm /\ chm_run' = "skipped") => base' = ForcedOutput']_vars

\* C18: a stage is skipped if and only if its output file exists and passes
\* the stage's sanity check: create_chm.process_city for the base raster,
\* process_elevation_data for the DOM and the DGM.
C18_SkippedIffSane ==
    [][/\ CreateChm =>
            (chm_run' = "skipped" <=> (base.exists /\ "CHM" \notin corrupt))
       /\ RostockMain =>
            \A dt \in DataTypes :
                dl'[dt].status # "none" =>
                    (dl'[dt].status = "skipped" <=> AlreadyValid(dt))]_vars


------------------------------------------------------------------------------
(* Properties of the filter counts (SpecDerive) *)

LowThresholds == {-2, 0, 4}

ValidPixels(chm) == {k \in 1..Len(chm) : ~isnan(chm[k])}

\* pixels that were valid before and are missing after
TurnedMissing(before, after) == ValidPixels(before) \ ValidPixels(after)

\* C19: for thresholds low <= high the counts apply_quality_filters reports
\* are exact: negative_pixels is the number of pixels the negative rule turned
\* from valid to missing, outlier_pixels the number the outlier rule turned,
\* and the two sum to valid_before - valid_after; likewise the two removal
\* counts of apply_chm_filters sum to valid_before - valid_after.
C19_CountsExact ==
    /\ \A low \in LowThresholds : \A high \in HighThresholds :
         low <= high =>
            LET r == apply_quality_filters(chm_raw, low, high)
                gone == TurnedMissing(chm_raw, r.chm_clean)
            IN  /\ r.negative_pixels = Cardinality({k \in gone : chm_raw[k] < low})
                /\ r.outlier_pixels = Cardinality({k \in gone : chm_raw[k] > high})
                /\ r.negative_pixels + r.outlier_pixels
                      = Cardinality(ValidPixels(chm_raw))
                          - Cardinality(ValidPixels(r.chm_clean))
    /\ \A chm \in {chm_raw} \cup (IF base.exists THEN {ReadNoDataAsNaN(base)} ELSE {}) :
         LET r == apply_chm_filters(chm)
         IN  r.very_negative_removed + r.very_high_removed
               = Cardinality(ValidPixels(chm)) - Cardinality(ValidPixels(r.chm_filtered))

\* create_chm filtered a raster holding a negative height, an outlier and a
\* height equal to one of the swept thresholds
C19_Witness ==
    /\ chm_run = "computed"
    /\ \E k \in ValidPixels(chm_raw) : chm_raw[k] < NEGATIVE_THRESHOLD
    /\ \E k \in ValidPixels(chm_raw) : chm_raw[k] > MAX_HEIGHT_THRESHOLD
    /\ \E k \in ValidPixels(chm_raw) : chm_raw[k] \in HighThresholds


------------------------------------------------------------------------------
(* Coverage figures of create_chm and resample_chm *)

\* a 1 m pixel pair whose difference is a valid height, and one whose
\* difference is negative
CoveragePixels == {<<12, 7>>, <<5, 7>>}

\* polygons of city_boundaries.gpkg: the whole buffered extent, its first
\* coarse cell, and the extent without its border pixels
CorePolygons ==
    {[lo |-> 0, hi |-> FineLen], [lo |-> 0, hi |-> CoarseRes],
     [lo |-> 1, hi |-> FineLen - 1]}

\* harmonized elevation rasters, a base raster of an earlier create_chm run or
\* none, the Sentinel-2 grid at the rasters' origin, and city_boundaries.gpkg
\* present or absent under BOUNDARIES_DIR
InitCoverage ==
    /\ city = "Berlin"
    /\ boundary = [lo |-> 0, hi |-> FineLen]
    /\ \E px \in [1..FineLen -> CoveragePixels] :
         raw = [DOM |-> File([k \in 1..FineLen |-> px[k][1]], TARGET_NODATA, 0),
                DGM |-> File([k \in 1..FineLen |-> px[k][2]], TARGET_NODATA, 0)]
    /\ elev = raw
    /\ harmonized = NoHarmonized
    /\ \/ base = NoFile
       \/ \E d \in [1..FineLen -> {1, NaN}] : base = File(d, NaN, 0)
    /\ IdleChm
    /\ s2 = [resample |-> [origin |-> 0, width |-> CoarseLen, res |-> CoarseRes],
             validate |-> [origin |-> 0, width |-> CoarseLen, res |-> CoarseRes]]
    /\ coarse = [v \in Variants |-> NoCoarse]
    /\ aggregated = [v \in Variants |-> NoInput]
    /\ IdleDl
    /\ \E e \in BOOLEAN : \E core \in CorePolygons : gpkg = [exists |-> e, core |-> core]
    /\ chm_run = "none"
    /\ report = NoReport
    /\ fleet = [c \in CITIES |-> NoCity]
    /\ drv = NoDriver
    /\ IdleTools

NextCoverage == CreateChm \/ ResampleProcessCity

SpecCoverage == InitCoverage /\ [][NextCoverage]_vars

------------------------------------------------------------------------------
(* Properties of the coverage figures (SpecCoverage) *)

\* 100 * valid / total in hundredths of a percent, for valid and total sets
PolygonCoverage(valid, inside) ==
    round2(100 * Cardinality(valid \cap inside), Cardinality(inside))

\* what create_chm reports is the coverage over the polygons
CreateChmOverPolygon ==
    /\ report.full # NoPercent =>
         report.full = PolygonCoverage(
             {k \in 1..Len(base.data) : ~Missing(base, k)},
             create_geometry_mask(Len(base.data), base.origin, boundary))
    /\ report.core # NoPercent =>
         report.core = PolygonCoverage(
             {k \in 1..Len(base.data) : ~Missing(base, k)},
             create_geometry_mask(Len(base.data), base.origin, gpkg.core))

\* what resample_chm reports is the coverage over the polygon whenever it
\* could read city_boundaries.gpkg
ResampleOverPolygonIfReadable ==
    \A v \in Variants :
        (gpkg.exists /\ report.coarse[v] # NoPercent) =>
            report.coarse[v] = PolygonCoverage(
                {j \in 1..Len(coarse[v].data) : ~Missing(coarse[v], j)},
                cells_in_city(coarse[v].grid, gpkg.core))

\* C20: every reported valid-coverage percentage equals 100 x (valid pixels
\* inside the region's boundary polygon) / (pixels inside the polygon): the
\* figures of create_chm for the buffered extent and the city core, and the
\* figure of resample_chm for each 10 m variant; never the share of valid
\* pixels of the whole raster.
C20_CoverageOverPolygon ==
    /\ CreateChmOverPolygon
    /\ \A v \in Variants :
         report.coarse[v] # NoPercent =>
            report.coarse[v] = PolygonCoverage(
                {j \in 1..Len(coarse[v].data) : ~Missing(coarse[v], j)},
                cells_in_city(coarse[v].grid, gpkg.core))


-----------------------------------------------------------------------------
(* The tile worker pool of download_and_convert_tiles (Berlin: mp.Pool,
   Rostock: ThreadPoolExecutor).  A path is a record [dir, name] below the
   data type's tile directory; a catalog entry is the text its paths are
   derived from: the link's title (Berlin) or the "file" parameter of its
   href (Rostock). *)

MAX_WORKERS == 3

\* text.replace(old, "")
RECURSIVE Replace(_, _)
Replace(text, old) ==
    IF text = <<>> THEN <<>>
    ELSE IF Len(text) >= Len(old) /\ SubSeq(text, 1, Len(old)) = old
         THEN Replace(SubSeq(text, Len(old) + 1, Len(text)), old)
         ELSE <<Head(text)>> \o Replace(Tail(text), old)

\* Path(filename).stem: the name without its last suffix
Stem(filename) ==
    LET dots == {i \in 2..Len(filename) : filename[i] = "."}
    IN  IF dots = {} THEN filename ELSE SubSeq(filename, 1, SetMax(dots) - 1)

\* tile["title"] as parse_atom_feed derives it
tile_id(script, name) ==
    IF script = "berlin"
    THEN Replace(Replace(name, <<"A", "T", "K", "I", "S", "(R)", " ">>),
                 <<".", "z", "i", "p">>)
    ELSE Replace(Stem(name), <<"_", "x", "y", "z">>)

\* the paths process_single_tile and xyz_to_geotiff write for a tile
zip_path(script, name) ==
    [dir |-> "",
     name |-> IF script = "berlin"
              THEN tile_id(script, name) \o <<".", "z", "i", "p">> ELSE name]
extract_dir(script, name) == [dir |-> "extracted", name |-> tile_id(script, name)]
geotiff_path(script, name) ==
    [dir |-> "geotiffs", name |-> tile_id(script, name) \o <<".", "t", "i", "f">>]
temp_tif(script, name) ==
    [dir |-> "geotiffs",
     name |-> tile_id(script, name)
              \o (IF script = "berlin"
                  THEN <<"_", "t", "e", "m", "p", ".", "t", "i", "f">>
                  ELSE <<"_", "t", "e", "m", "p", "_", "2", "5", "8", "3", "3",
                         ".", "t", "i", "f">>)]

\* tile i moves to stage next after writing the paths in written and
\* unlinking the paths in removed
TileWrites(i, next, written, removed) ==
    /\ pool' = [pool EXCEPT !.pc[i] = next,
                            !.wrote[i] = @ \cup written,
                            !.disk = (@ \cup written) \ removed]
    /\ UNCHANGED <<pipelineVars, xyz, chm_stats, val>>

\* the pool hands the next submitted tile to a free worker
WorkerTakesTile ==
    \E i \in 1..Len(pool.tiles) :
        /\ pool.pc[i] = "queued"
        /\ \A j \in 1..(i - 1) : pool.pc[j] # "queued"
        /\ Cardinality({j \in 1..Len(pool.tiles) :
                           pool.pc[j] \notin {"queued", "done"}}) < MAX_WORKERS
        /\ TileWrites(i, "download", {}, {})

\* process_single_tile: download_file unless the zip exists
DownloadZip ==
    \E i \in 1..Len(pool.tiles) :
        /\ pool.pc[i] = "download"
        /\ LET zip == zip_path(pool.script, pool.tiles[i])
           IN  TileWrites(i, "extract", IF zip \in pool.disk THEN {} ELSE {zip}, {})

\* process_single_tile: extract_xyz_from_zip (unzip -o into the directory)
ExtractZip ==
    \E i \in 1..Len(pool.tiles) :
        /\ pool.pc[i] = "extract"
        /\ TileWrites(i, "convert", {extract_dir(pool.script, pool.tiles[i])}, {})

\* xyz_to_geotiff, first step: the temporary GeoTIFF in the source CRS;
\* Berlin returns the final GeoTIFF unconverted if it already exists
WriteTempTif ==
    \E i \in 1..Len(pool.tiles) :
        /\ pool.pc[i] = "convert"
        /\ IF pool.script = "berlin"
              /\ geotiff_path(pool.script, pool.tiles[i]) \in pool.disk
           THEN TileWrites(i, "done", {}, {})
           ELSE TileWrites(i, "warp", {temp_tif(pool.script, pool.tiles[i])}, {})

\* xyz_to_geotiff, second step: gdalwarp -overwrite to the final GeoTIFF,
\* then temp_tif.unlink()
WarpToGeotiff ==
    \E i \in 1..Len(pool.tiles) :
        /\ pool.pc[i] = "warp"
        /\ TileWrites(i, "done", {geotiff_path(pool.script, pool.tiles[i])},
                      {temp_tif(pool.script, pool.tiles[i])})

\* link names of a feed: a tile, the same tile under its other spelling, and
\* another tile
PoolNames(script) ==
    IF script = "berlin"
    THEN {<<"a">>, <<"a", ".", "z", "i", "p">>, <<"b">>}
    ELSE {<<"a", ".", "z", "i", "p">>, <<"a", "_", "x", "y", "z", ".", "z", "i", "p">>,
          <<"b", ".", "z", "i", "p">>}

\* the filtered catalog was submitted to the pool; no tile has started
InitPool ==
    /\ city \in {"Berlin", "Rostock"}
    /\ IdlePipeline
    /\ IdleDl
    /\ \E tiles \in SeqsUpTo(PoolNames(IF city = "Berlin" THEN "berlin" ELSE "rostock"),
                             MaxTiles) :
         /\ tiles # <<>>
         /\ \A i, j \in 1..Len(tiles) : i # j => tiles[i] # tiles[j]
         /\ pool = [script |-> IF city = "Berlin" THEN "berlin" ELSE "rostock",
                    tiles |-> tiles,
                    pc |-> [i \in 1..Len(tiles) |-> "queued"],
                    wrote |-> [i \in 1..Len(tiles) |-> {}],
                    disk |-> {}]
    /\ xyz = NoXyz
    /\ chm_stats = NoStats
    /\ val = NoVal

NextPool == WorkerTakesTile \/ DownloadZip \/ ExtractZip \/ WriteTempTif \/ WarpToGeotiff
SpecPool == InitPool /\ [][NextPool]_vars

-----------------------------------------------------------------------------
(* Properties of the tile worker pool (SpecPool) *)

\* C21: while the worker pool runs, no two distinct tiles of the filtered
\* catalog write the same file path (zip, extraction directory, temporary
\* GeoTIFF, final GeoTIFF).
C21_NoSharedPaths ==
    \A i, j \in 1..Len(pool.tiles) :
        i # j => pool.wrote[i] \cap pool.wrote[j] = {}

\* tiles whose identifiers differ write disjoint paths
DistinctIdsDisjointPaths ==
    \A i, j \in 1..Len(pool.tiles) :
        tile_id(pool.script, pool.tiles[i]) # tile_id(pool.script, pool.tiles[j])
            => pool.wrote[i] \cap pool.wrote[j] = {}


-----------------------------------------------------------------------------
(* Properties of the Rostock worker completion order (SpecMosaic) *)

\* the workers finish in the order the tiles were submitted
SubmissionOrder ==
    [dt \in DataTypes |->
        [i \in 1..Len(rostock_parse_atom_feed(feed[dt], region.wgs84)) |-> i]]

\* C27: for a fixed set of converted tiles the Rostock mosaic is the same for
\* every completion order of the workers: whatever order the run saw, its
\* output equals the output for the submission order.
C27_OrderIndependent ==
    [][RostockMain =>
          \A dt \in DataTypes :
              dl'[dt].status = "ok" =>
                  dl'[dt].out = rostock_process_elevation_data(dt, SubmissionOrder).out]_vars

\* tiles that never hold valid values at the same position give the same
\* mosaic in every completion order
DisjointTilesOrderIndependent ==
    [][RostockMain =>
          \A dt \in DataTypes :
              (/\ dl'[dt].status = "ok"
               /\ \A x \in MosaicBounds.minx .. MosaicBounds.maxx :
                     Cardinality(ValidAt(Opened(dl'[dt].geotiff_paths), x)) <= 1)
                  => dl'[dt].out = rostock_process_elevation_data(dt, SubmissionOrder).out]_vars


-----------------------------------------------------------------------------
(* Clipping to a boundary in two parts *)

\* the stretch between the parts of the boundary: none, or one pixel
ClipGaps == {NoGap, [lo |-> MosaicBounds.minx + 1, hi |-> MosaicBounds.minx + 2]}

\* tiles inside the boundary that download, convert and open
ClipTiles(c) ==
    {t \in MosaicTiles(c) :
        t.title = <<"5", "_", "5">> /\ t.download_ok /\ t.convert_ok /\ t.opens}

InitClip ==
    /\ city \in CITIES
    /\ \E gap \in ClipGaps :
          region = [bounds |-> MosaicBounds, wgs84 |-> RegionWgs84, gap |-> gap]
    /\ \E dom \in SeqsUpTo(ClipTiles(city), MaxTiles) :
       \E dgm \in {<<>>, <<GoodTile(city)>>} :
          /\ dom # <<>>
          /\ feed = [DOM |-> dom, DGM |-> dgm]
    /\ dl = [dt \in DataTypes |-> NotRun]
    /\ corrupt = {}
    /\ IdlePipeline
    /\ IdleTools

NextClip == BerlinMain \/ HamburgMain \/ RostockMain
SpecClip == InitClip /\ [][NextClip]_vars

-----------------------------------------------------------------------------
(* Properties of the clip (SpecClip) *)

\* the mosaic the output of a data type was clipped from
ClippedFrom(dt) ==
    IF dl[dt].method = "gdalwarp" THEN gdalbuildvrt(MosaicInputs(dt))
    ELSE merge_first(MosaicInputs(dt))

\* a pixel value that stands for "no data" in file f: its marker, or the
\* fill value 0 where the file declares none
FilledAt(f, k) == Missing(f, k) \/ f.data[k] = FillValue(f.nodata)

\* whether the output of a data type holds, at each pixel the polygon
\* touches, the mosaic's value, and no data at every other pixel
ClippedToPolygon(dt) ==
    LET out == dl[dt].out
        mosaic == ClippedFrom(dt)
    IN  \A k \in 1..Len(out.data) :
            LET x == out.origin + k - 1
            IN  IF Touched(region.bounds, x)
                THEN (mosaic.origin <= x /\ x < mosaic.origin + Len(mosaic.data))
                         => out.data[k] = mosaic.data[x - mosaic.origin + 1]
                ELSE FilledAt(out, k)

\* C25: every raster written by a mosaic-and-clip path is cropped to the
\* boundary polygon with the all-touched rule: a pixel the polygon touches
\* keeps its mosaic value, a pixel it does not touch is missing, on the
\* merge path and on the gdalwarp path.
C25_ClippedToPolygon ==
    \A dt \in DataTypes : dl[dt].status = "ok" => ClippedToPolygon(dt)

\* the rasterio merge path clips to the polygon
MergePathClippedToPolygon ==
    \A dt \in DataTypes :
        (dl[dt].status = "ok" /\ dl[dt].method = "merge") => ClippedToPolygon(dt)


-----------------------------------------------------------------------------
(* rostock xyz_to_geotiff: the grid it fills from the sample points.
   Coordinates are held in half metres (x2 = 2 * x), so that points on an
   integer lattice and on a half-integer lattice are both whole numbers; a
   raster is a function from <<row, column>> to a value. *)

MaxXyz == 2        \* sample points per row and per column of an XYZ file

\* np.floor and np.ceil of a coordinate given in half metres
Floor2(c2) == c2 \div 2
Ceil2(c2) == (c2 + 1) \div 2

\* (coords - lower).astype(int) for a non-negative difference given in half metres
AsInt2(d2) == d2 \div 2

\* xyz_to_geotiff up to the write of the intermediate raster: the grid, the
\* indices of each point, the points the bounds clip keeps and the raster
xyz_to_geotiff(points) ==
    LET n == Len(points)
        xmin == Floor2(SetMin({points[i].x2 : i \in 1..n}))
        xmax == Ceil2(SetMax({points[i].x2 : i \in 1..n}))
        ymin == Floor2(SetMin({points[i].y2 : i \in 1..n}))
        ymax == Ceil2(SetMax({points[i].y2 : i \in 1..n}))
        width == xmax - xmin
        height == ymax - ymin
        x_indices == [i \in 1..n |-> AsInt2(points[i].x2 - 2 * xmin)]
        y_indices == [i \in 1..n |-> AsInt2(2 * ymax - points[i].y2)]
        valid == {i \in 1..n :
                     /\ x_indices[i] >= 0 /\ x_indices[i] < width
                     /\ y_indices[i] >= 0 /\ y_indices[i] < height}
    IN  [points |-> points, done |-> TRUE, width |-> width, height |-> height,
         x_indices |-> x_indices, y_indices |-> y_indices, valid |-> valid,
         raster |-> [cell \in (0..(height - 1)) \X (0..(width - 1)) |->
                        LET hits == {i \in valid :
                                        <<y_indices[i], x_indices[i]>> = cell}
                        IN  IF hits = {} THEN NODATA ELSE points[SetMax(hits)].z]]

XyzToGeotiff ==
    /\ ~xyz.done
    /\ xyz' = xyz_to_geotiff(xyz.points)
    /\ UNCHANGED <<pipelineVars, pool, chm_stats, val>>

\* an XYZ file: sample points one metre apart, at whole-metre or at
\* half-metre coordinates, row by row
XyzLattice(nx, ny, half, zs) ==
    [i \in 1..(nx * ny) |->
        [x2 |-> 2 * (4000 + ((i - 1) % nx)) + half,
         y2 |-> 2 * (5000 + ((i - 1) \div nx)) + half,
         z |-> zs[i]]]

XyzFiles ==
    UNION {{XyzLattice(nx, ny, half, zs) : zs \in [1..(nx * ny) -> {7, 8}]} :
              nx \in 1..MaxXyz, ny \in 1..MaxXyz, half \in {0, 1}}

InitXyz ==
    /\ city = "Rostock"
    /\ IdlePipeline
    /\ IdleDl
    /\ pool = NoPool
    /\ chm_stats = NoStats
    /\ val = NoVal
    /\ \E points \in XyzFiles :
          xyz = [NoXyz EXCEPT !.points = points]

NextXyz == XyzToGeotiff
SpecXyz == InitXyz /\ [][NextXyz]_vars

-----------------------------------------------------------------------------
(* Properties of the XYZ conversion (SpecXyz) *)

\* each sample point was written and no two points share a cell
EveryPointInOneCell ==
    /\ xyz.valid = 1..Len(xyz.points)
    /\ \A i, j \in xyz.valid :
          i # j => <<xyz.y_indices[i], xyz.x_indices[i]>>
                      # <<xyz.y_indices[j], xyz.x_indices[j]>>

\* C30: xyz_to_geotiff writes every sample point into exactly one cell: for
\* points on a 1 m lattice, at integer or at half-integer coordinates, the
\* bounds clip drops no point and no two points land in the same cell.
C30_EveryPointInOneCell == xyz.done => EveryPointInOneCell

\* on a half-integer lattice every point has its own cell
HalfLatticeEveryPointInOneCell ==
    (xyz.done /\ \A i \in 1..Len(xyz.points) : xyz.points[i].x2 % 2 = 1)
        => EveryPointInOneCell


-----------------------------------------------------------------------------
(* Properties of the std variant of resample_chm (SpecAgg) *)

\* np.std over the valid pixels of src_data that lie inside cell j of grid g
StdOverCell(src_data, src_origin, g, j) ==
    LET ks == {k \in CellPixels(Len(src_data), src_origin, g, j) :
                  ~isnan(src_data[k])}
    IN  IF Cardinality(ks) > 1 THEN NpStd(src_data, ks)
        ELSE IF Cardinality(ks) = 1 THEN 0
        ELSE NaN

\* C28: the std variant of resample_chm_aggregation is computed over exactly
\* the fine pixels that lie geographically inside each destination cell, the
\* set the mean variant averages, for any source and destination transform.
C28_StdOverGeographicCell ==
    (coarse["std"].exists /\ coarse["std"].by = "resample_chm") =>
        LET src_data == aggregated["std"].src_data
            o == aggregated["std"].base.origin
            g == coarse["std"].grid
        IN  \A j \in 1..g.width :
               CoarseData(coarse["std"])[j] = StdOverCell(src_data, o, g, j)

\* where the reference grid starts at the raster's origin the blocks are the
\* cells
AlignedStdOverGeographicCell ==
    (coarse["std"].exists /\ coarse["std"].by = "resample_chm"
        /\ coarse["std"].grid.origin = aggregated["std"].base.origin)
        => \A j \in 1..coarse["std"].grid.width :
              CoarseData(coarse["std"])[j]
                 = StdOverCell(aggregated["std"].src_data,
                               aggregated["std"].base.origin, coarse["std"].grid, j)


-----------------------------------------------------------------------------
(* Repeated runs of create_chm over one city, whose row in
   city_boundaries.gpkg may be absent while the buffered file has it *)

InitSidecar ==
    /\ city = "Berlin"
    /\ boundary = [lo |-> 0, hi |-> NumPix]
    /\ \E px \in [1..NumPix -> PixelCases] :
         raw = [DOM |-> File([k \in 1..NumPix |-> px[k][1]], TARGET_NODATA, 0),
                DGM |-> File([k \in 1..NumPix |-> px[k][2]], TARGET_NODATA, 0)]
    /\ elev = raw
    /\ harmonized = NoHarmonized
    /\ base = NoFile
    /\ IdleChm
    /\ IdleAgg
    /\ IdleDl
    /\ IdleRun
    /\ pool = NoPool
    /\ xyz = NoXyz
    /\ val = NoVal
    /\ \E listed \in BOOLEAN : chm_stats = [NoStats EXCEPT !.listed = listed]

NextSidecar == CreateChm
SpecSidecar == InitSidecar /\ [][NextSidecar]_vars

-----------------------------------------------------------------------------
(* Properties of the statistics sidecar (SpecSidecar) *)

\* C26: whenever the city's base raster exists after any sequence of
\* create_chm runs, a run with skip_existing=True returns non-empty statistics
\* and the city has its rows in chm_statistics.csv.
C26_SkipReturnsStatistics ==
    [][(CreateChm /\ base.exists) =>
          /\ chm_stats'.returned = "cached"
          /\ chm_stats'.csv]_vars

\* a run that skips returns the sidecar's statistics when the sidecar exists
SkipReturnsSidecar ==
    [][(CreateChm /\ base.exists /\ chm_stats.sidecar) =>
          /\ chm_stats'.returned = "cached"
          /\ chm_stats'.csv]_vars


-----------------------------------------------------------------------------
(* validation/validate_data.py: checks 1.1 and 1.2, and main.  Pixel widths
   are in centimetres, origins in metres. *)

Abs(x) == IF x < 0 THEN -x ELSE x

\* calculate_default_transform(..., *chm_src.bounds, resolution=10.0): a 10 m
\* grid that starts at the CHM's own origin
chm_transform_target(chm_origin) == [a |-> 1000, c |-> chm_origin.c, f |-> chm_origin.f]

\* a variant that compares the transform computed for the CHM
grid_chm_transform_computed(s2_transform, target) == target

\* chm_transform = s2_transform
grid_chm_transform(s2_transform, target) == s2_transform

\* check_1_1_grid_alignment, for one city
check_1_1_city(n) ==
    IF ~fleet[n].chm \/ ~fleet[n].s2
    THEN [NoResult EXCEPT !.status = "SKIP"]
    ELSE LET s2_transform == val.ref[n]
             chm_transform == grid_chm_transform(
                                  s2_transform, chm_transform_target(val.chm_origin[n]))
             x_offset_diff == Abs(chm_transform.c - s2_transform.c)
             y_offset_diff == Abs(chm_transform.f - s2_transform.f)
         IN  [status |-> IF x_offset_diff >= 1 \/ y_offset_diff >= 1
                              \/ Abs(s2_transform.a - 1000) >= 10
                         THEN "FAIL" ELSE "PASS",
              x_offset_diff_m |-> x_offset_diff,
              y_offset_diff_m |-> y_offset_diff]

check_1_1_grid_alignment == [n \in CITIES |-> check_1_1_city(n)]

\* check_1_2_chm_plausibility, for one city: the status of the share of trees
\* with a plausible height
check_1_2_city(n) ==
    IF ~fleet[n].chm THEN "none"
    ELSE IF val.plausible_pct[n] >= 85 THEN "PASS"
    ELSE IF val.plausible_pct[n] >= 80 THEN "ACCEPTABLE"
    ELSE "LOW"

check_1_2_chm_plausibility == [n \in CITIES |-> check_1_2_city(n)]

\* check 1.1 on its own
ValidateCheck11 ==
    /\ val.ran = <<>>
    /\ val' = [val EXCEPT !.ran = <<"1.1">>, !.grid = check_1_1_grid_alignment]
    /\ UNCHANGED <<pipelineVars, pool, xyz, chm_stats>>

\* what the Sentinel-2 reference rasters and the CHMs of the cities can be
PixelWidths == {990, 991, 1009, 1010}
ChmOrigins == {[c |-> 0, f |-> 0], [c |-> 3, f |-> 2]}

\* the files of the three cities before a validation run
IdleValidation ==
    /\ city = "Berlin"
    /\ boundary = [lo |-> 0, hi |-> 0]
    /\ raw = [DOM |-> NoFile, DGM |-> NoFile]
    /\ elev = raw
    /\ harmonized = NoHarmonized
    /\ base = NoFile
    /\ IdleChm
    /\ IdleAgg
    /\ IdleDl
    /\ gpkg = [exists |-> TRUE, core |-> boundary]
    /\ chm_run = "none"
    /\ report = NoReport
    /\ drv = NoDriver
    /\ pool = NoPool /\ xyz = NoXyz /\ chm_stats = NoStats

InitGrid ==
    /\ IdleValidation
    /\ fleet \in [CITIES -> [dom_dgm : {TRUE}, chm : BOOLEAN, s2 : {TRUE},
                             chm_10m : {FALSE}]]
    /\ \E a \in [CITIES -> PixelWidths], o \in [CITIES -> ChmOrigins] :
          val = [NoVal EXCEPT !.ref = [n \in CITIES |-> [NoRef EXCEPT !.a = a[n]]],
                              !.chm_origin = o]

NextGrid == ValidateCheck11
SpecGrid == InitGrid /\ [][NextGrid]_vars

-----------------------------------------------------------------------------
(* Properties of check 1.1 (SpecGrid) *)

-----------------------------------------------------------------------------
(* validation/validate_data.py: main *)

\* the status check 0.4 prints for a city's maximum, at an offset in pixels of
\* 10 m (<<>>: the city's files are missing)
offset_status(best) ==
    IF best = <<>> THEN "none"
    ELSE IF best[1] = 0 /\ best[2] = 0 THEN "PASS"
    ELSE IF Abs(best[1] * 10) <= 10 /\ Abs(best[2] * 10) <= 10 THEN "WARNING"
    ELSE "FAIL"

\* the cities the global validation of check 0.4 lists: maximum off (0, 0)
offset_detected == {n \in CITIES : val.best[n] # <<>> /\ val.best[n] # <<0, 0>>}

Priority0 == <<"0.1">>
Priority075 == <<"0.3", "0.4", "0.5", "0.6", "0.7">>
Priority1 == <<"1.1", "1.2">>
Priority2 == <<"2.1", "2.2", "2.3">>
Priority3 == <<"3.2">>

\* a variant of main that returns when check 0.4 lists a city
checks_run_stop_on_offset(crs_failures, detected, grid_failures) ==
    IF crs_failures THEN Priority0
    ELSE IF detected # {} THEN Priority0 \o <<"0.3", "0.4">>
    ELSE IF grid_failures # {} THEN Priority0 \o Priority075 \o Priority1
    ELSE Priority0 \o Priority075 \o Priority1 \o Priority2 \o Priority3
             \o <<"report">>

\* the checks main calls, in order, and generate_validation_report
checks_run(crs_failures, detected, grid_failures) ==
    IF crs_failures THEN Priority0
    ELSE IF grid_failures # {} THEN Priority0 \o Priority075 \o Priority1
    ELSE Priority0 \o Priority075 \o Priority1 \o Priority2 \o Priority3
             \o <<"report">>

Ran(check) == \E i \in 1..Len(val.ran) : val.ran[i] = check

ValidateMain ==
    /\ val.ran = <<>>
    /\ LET grid_results == check_1_1_grid_alignment
           plausibility_results == check_1_2_chm_plausibility
           grid_failures == {n \in CITIES : grid_results[n].status = "FAIL"}
           ran == checks_run(~val.crs_ok, offset_detected, grid_failures)
           has(check) == \E i \in 1..Len(ran) : ran[i] = check
       IN  val' = [val EXCEPT
                      !.ran = ran,
                      !.flagged = IF has("0.4") THEN offset_detected ELSE @,
                      !.grid = IF has("1.1") THEN grid_results ELSE @,
                      !.plausibility = IF has("1.2") THEN plausibility_results ELSE @,
                      !.report = has("report")]
    /\ UNCHANGED <<pipelineVars, pool, xyz, chm_stats>>

InitValidate ==
    /\ IdleValidation
    /\ fleet \in [CITIES -> [dom_dgm : {TRUE}, chm : BOOLEAN, s2 : {TRUE},
                             chm_10m : {FALSE}]]
    /\ \E crs_ok \in BOOLEAN, a \in [CITIES -> {1000, 1010}],
          pct \in [CITIES -> {79, 85}],
          best \in [CITIES -> {<<>>, <<0, 0>>, <<1, 0>>}] :
          val = [NoVal EXCEPT !.crs_ok = crs_ok,
                              !.ref = [n \in CITIES |-> [NoRef EXCEPT !.a = a[n]]],
                              !.plausible_pct = pct,
                              !.best = best]

NextValidate == ValidateMain
SpecValidate == InitValidate /\ [][NextValidate]_vars

-----------------------------------------------------------------------------
(* Properties of validate_data.main (SpecValidate) *)

AfterPriority1 == \E i \in 1..Len(Priority2 \o Priority3) :
                      Ran((Priority2 \o Priority3)[i])

\* C24: a failure of either Priority-1 stopper (grid alignment FAIL for any
\* city, or CHM plausibility LOW for any city) stops the run before any
\* Priority 2 or Priority 3 check and before the validation report.
C24_StoppersStop ==
    (Ran("1.2") /\ \E n \in CITIES : val.grid[n].status = "FAIL"
                                        \/ val.plausibility[n] = "LOW")
        => ~AfterPriority1 /\ ~val.report

\* a grid alignment FAIL stops the run
GridFailureStops ==
    (Ran("1.2") /\ \E n \in CITIES : val.grid[n].status = "FAIL")
        => ~AfterPriority1 /\ ~val.report

-----------------------------------------------------------------------------
(* validation/validate_data.py, check 0.4: the offset scan of one city.  A
   correlation is the record [nan, num, den] that stands for num / sqrt(den),
   or for NaN. *)

ScanLen == 5       \* pixels of the coarse rasters the scan reads
MinValid == 3      \* valid pixel pairs an offset needs (1000 in the code, for
                   \* rasters of that size)

NaNCorr == [nan |-> TRUE, num |-> 0, den |-> 1]

\* a variant that moves the content the other way
ndimage_shift_reversed(row, dy, dx) ==
    [j \in 1..Len(row) |->
        IF dy = 0 /\ (j + dx) \in 1..Len(row) /\ \A k \in 1..Len(row) : ~isnan(row[k])
        THEN row[j + dx] ELSE NaN]

\* scipy.ndimage.shift(row, shift=(dy, dx), mode="constant", cval=np.nan) of a
\* raster of one row, for whole shifts: the content moves dx pixels to the
\* right, pixels shifted in are NaN; the spline filter spreads a NaN of the
\* input over the whole output
ndimage_shift(row, dy, dx) ==
    [j \in 1..Len(row) |->
        IF dy = 0 /\ (j - dx) \in 1..Len(row) /\ \A k \in 1..Len(row) : ~isnan(row[k])
        THEN row[j - dx] ELSE NaN]

\* scipy.stats.pearsonr(x[ks], y[ks]): NaN for a constant input
pearsonr(x, y, ks) ==
    LET n == Cardinality(ks)
        xy == [k \in 1..Len(x) |-> IF k \in ks THEN x[k] * y[k] ELSE 0]
        xx == [k \in 1..Len(x) |-> IF k \in ks THEN x[k] * x[k] ELSE 0]
        yy == [k \in 1..Len(x) |-> IF k \in ks THEN y[k] * y[k] ELSE 0]
        Sx == SumOver(x, ks)
        Sy == SumOver(y, ks)
        A == n * SumOver(xy, ks) - Sx * Sy
        B == n * SumOver(xx, ks) - Sx * Sx
        C == n * SumOver(yy, ks) - Sy * Sy
    IN  IF B = 0 \/ C = 0 THEN NaNCorr
        ELSE [nan |-> FALSE, num |-> A, den |-> B * C]

\* r1 > r2 for two correlations that are not NaN
CorrGt(r1, r2) ==
    LET s1 == IF r1.num < 0 THEN -1 ELSE 1
        s2_ == IF r2.num < 0 THEN -1 ELSE 1
    IN  s1 * r1.num * r1.num * r2.den > s2_ * r2.num * r2.num * r1.den

CorrEq(r1, r2) == ~r1.nan /\ ~r2.nan /\ ~CorrGt(r1, r2) /\ ~CorrGt(r2, r1)

\* offsets = [(dx, dy) for dx in range(-2, 3) for dy in range(-2, 3)]
ScanOffsets == [k \in 1..25 |-> <<((k - 1) \div 5) - 2, ((k - 1) % 5) - 2>>]

\* one offset of the scan
scan_offset(chm_data, ndvi, dx_pixels, dy_pixels) ==
    LET chm_shifted == ndimage_shift(chm_data, dy_pixels, dx_pixels)
        valid_mask == {k \in 1..Len(ndvi) :
                          /\ ~isnan(chm_shifted[k]) /\ ~isnan(ndvi[k])
                          /\ chm_shifted[k] > 0 /\ ndvi[k] > -1}
        n_valid == Cardinality(valid_mask)
    IN  [offset |-> <<dx_pixels, dy_pixels>>,
         correlation |-> IF n_valid < MinValid THEN NaNCorr
                         ELSE pearsonr(chm_shifted, ndvi, valid_mask),
         n_valid |-> n_valid]

\* df_city["correlation"].idxmax(): the first row with the largest value
idxmax(city_results) ==
    LET rows == {k \in 1..Len(city_results) : ~city_results[k].correlation.nan}
        maxima == {k \in rows :
                      \A m \in rows : ~CorrGt(city_results[m].correlation,
                                              city_results[k].correlation)}
    IN  SetMin(maxima)

\* the scan of one city: its rows and the offset of its maximum (<<>> when no
\* offset has a correlation)
check_0_4_city(chm, ndvi_band) ==
    LET min_cols == Min2(Len(chm), Len(ndvi_band))
        chm_data == SubSeq(chm, 1, min_cols)
        ndvi == SubSeq(ndvi_band, 1, min_cols)
        city_results == [k \in 1..25 |->
                            scan_offset(chm_data, ndvi, ScanOffsets[k][1],
                                        ScanOffsets[k][2])]
        valid_corrs == {k \in 1..25 : ~city_results[k].correlation.nan}
    IN  [city_results |-> city_results,
         best |-> IF valid_corrs = {} THEN <<>>
                  ELSE city_results[idxmax(city_results)].offset]

\* check 0.4 for the city, on CHM_10m_mean_<city>.tif and the NDVI raster
ValidateCheck04 ==
    /\ coarse["mean"].exists
    /\ val.ndvi # <<>>
    /\ val.ran = <<>>
    /\ LET r == check_0_4_city(coarse["mean"].data, val.ndvi)
       IN  val' = [val EXCEPT
                      !.ran = <<"0.4">>,
                      !.scan = r.city_results,
                      !.best = [@ EXCEPT ![city] = r.best],
                      !.flagged = IF offset_status(r.best) \in {"WARNING", "FAIL"}
                                  THEN @ \cup {city} ELSE @]
    /\ UNCHANGED <<pipelineVars, pool, xyz, chm_stats>>

\* heights and NDVI values of a pixel (0: no canopy, which the scan masks)
ScanValues == {0, 1, 2}

\* each value CoarseRes times: 1 m pixels whose mean over a cell is the value
RECURSIVE Repeat(_, _)
Repeat(row, times) ==
    IF row = <<>> THEN <<>>
    ELSE [k \in 1..times |-> Head(row)] \o Repeat(Tail(row), times)

\* the city's base raster and the NDVI raster over one strip of ground: the
\* NDVI raster shows the heights, one coarse pixel further right or in place
InitScan ==
    /\ city = "Berlin"
    /\ boundary = [lo |-> 0, hi |-> ScanLen * CoarseRes]
    /\ raw = [DOM |-> NoFile, DGM |-> NoFile]
    /\ elev = raw
    /\ harmonized = NoHarmonized
    /\ IdleChm
    /\ IdleDl
    /\ IdleRun
    /\ pool = NoPool /\ xyz = NoXyz /\ chm_stats = NoStats
    /\ s2 = [resample |-> [origin |-> 0, width |-> ScanLen, res |-> CoarseRes],
             validate |-> [origin |-> 0, width |-> ScanLen, res |-> CoarseRes]]
    /\ coarse = [v \in Variants |-> NoCoarse]
    /\ aggregated = [v \in Variants |-> NoInput]
    /\ \E ground \in [1..(ScanLen + 1) -> ScanValues], shift \in {0, 1} :
          /\ base = File(Repeat(SubSeq(ground, 2, ScanLen + 1), CoarseRes), NaN, 0)
          /\ val = [NoVal EXCEPT
                       !.best = [n \in CITIES |-> <<>>],
                       !.ndvi = SubSeq(ground, 2 - shift, ScanLen + 1 - shift)]

NextScan == ResampleProcessCity \/ ValidateCheck04
SpecScan == InitScan /\ [][NextScan]_vars


-----------------------------------------------------------------------------
(* Properties of the offset scan (SpecScan) *)

\* the row of the scan for an offset
ScanRow(dx, dy) == val.scan[CHOOSE k \in 1..25 : ScanOffsets[k] = <<dx, dy>>]

\* the scan ran on a second raster that is the first one, the coarse mean,
\* shifted by one pixel in x; the content is not constant and the offset
\* (1, 0) has enough valid pixels for a correlation
ScannedShiftedByOne ==
    /\ val.scan # <<>>
    /\ LET a == coarse["mean"].data
           b == val.ndvi
       IN  /\ Len(a) = Len(b)
           /\ \A j \in 2..Len(a) : b[j] = a[j - 1]
           /\ \E j, k \in 1..Len(a) : a[j] # a[k]
    /\ ~ScanRow(1, 0).correlation.nan

\* C22: when raster_b is raster_a shifted by exactly one pixel in x and zero
\* in y, for non-constant content and enough valid pixels, the offset scan
\* over dx, dy in -2..2 reports its maximum at (1, 0), not at (0, 0).
C22_MaximumAtShift ==
    ScannedShiftedByOne => val.best[city] = <<1, 0>>

\* in that case no offset correlates better than (1, 0), and the maximum
\* reported is the first offset of the scan that correlates as well: (1, 0)
\* unless the pixels of an earlier offset match as exactly
C22_FirstMaximumAtShift ==
    ScannedShiftedByOne =>
        /\ \A k \in 1..25 :
              ~val.scan[k].correlation.nan
                  => ~CorrGt(val.scan[k].correlation, ScanRow(1, 0).correlation)
        /\ \E k \in 1..25 :
              /\ val.best[city] = ScanOffsets[k]
              /\ CorrEq(val.scan[k].correlation, ScanRow(1, 0).correlation)
              /\ \A m \in 1..(k - 1) :
                    ~CorrEq(val.scan[m].correlation, ScanRow(1, 0).correlation)

\* the scan found the shift: the maximum is at (1, 0) and the correlation at
\* (0, 0) is lower
C22_Witness ==
    /\ ScannedShiftedByOne
    /\ val.best[city] = <<1, 0>>
    /\ ~ScanRow(0, 0).correlation.nan
    /\ CorrGt(ScanRow(1, 0).correlation, ScanRow(0, 0).correlation)
    /\ city \in val.flagged

====
